---------------------------- MODULE Spec2Model ----------------------------
(***************************************************************************)
(* A model of the agent orchestration loop and of the tool layer of the    *)
(* local-first AI skeleton (src/api/main.py, src/api/agent_tools.py).      *)
(*                                                                         *)
(* Python strings are sequences of one-character strings, so that strip,   *)
(* replace, slicing, startswith and the regular expressions of the source  *)
(* are computed character by character.  JSON values are tagged records:   *)
(*   [t |-> "null"], [t |-> "bool", b |-> ..], [t |-> "int", n |-> ..],    *)
(*   [t |-> "str", s |-> chars], [t |-> "list", items |-> seq],            *)
(*   [t |-> "dict", d |-> record or << >>].                                *)
(***************************************************************************)
EXTENDS Integers, Sequences, FiniteSets, TLC

VARIABLES
    pc,           \* request -> position in agent(): "idle", "plan", "tools",
                  \*   "answer", "auto_note", "auto_todo", "final", "done", "failed"
    task,         \* request -> req.task
    top_k,        \* request -> req.top_k
    plan_text,    \* request -> plan_text, the reply of the planning call
    plan,         \* request -> plan (a JSON list value)
    tool_calls,   \* request -> the tool calls the for loop has not reached yet
    executed,     \* request -> executed
    citations,    \* request -> citations
    search_hits_payload, \* request -> search_hits_payload
    sources_block,\* request -> the sources block sent in the answer prompt
    answer,       \* request -> answer
    note_path,    \* request -> note_path
    todos,        \* request -> todos
    failure,      \* request -> the exception that ended the request, or "none"
    attempts,     \* request -> the calls of execute_tool that have returned or raised
    log,          \* the audit file /app/logs/traces.jsonl, a sequence of records
    notes,        \* the files of /app/notes: path -> text written
    handler_runs, \* every (handler, arguments) a tool handler was invoked with
    retrieve_calls, \* every (query, top_k) retrieve was called with
    call,         \* the last direct call of a tool-layer function and its result
    docs,         \* the files under docs_dir: relative path -> text
    collection,   \* the collection of the index: None while absent, else its
                  \*   vector size and its points
    ingest,       \* the run of ingest_directory: position and locals
    remote_calls, \* the calls the run has made to the embedding service and the index
    edits         \* how many times the directory was edited

\* the state of the ingestion pipeline
ragVars == <<docs, collection, ingest, remote_calls, edits>>

vars == <<pc, task, top_k, plan_text, plan, tool_calls, executed, citations,
          search_hits_payload, sources_block, answer, note_path, todos,
          failure, attempts, log, notes, handler_runs, retrieve_calls, call,
          ragVars>>

---------------------------------------------------------------------------
(* Bounds of the model *)

\* titles and file names are enumerated up to this many characters / tokens
MaxTitleLen == 4
MaxNameTokens == 4

---------------------------------------------------------------------------
(* Python str operations *)

Space == {" ", "\t", "\n", "\r"}

Indices(s) == [i \in 1..Len(s) |-> i]

\* s.lstrip(), s.rstrip(), s.strip()
lstrip(s) ==
    LET keep == SelectSeq(Indices(s), LAMBDA i : s[i] \notin Space)
    IN  IF keep = << >> THEN << >> ELSE SubSeq(s, keep[1], Len(s))

rstrip(s) ==
    LET keep == SelectSeq(Indices(s), LAMBDA i : s[i] \notin Space)
    IN  IF keep = << >> THEN << >> ELSE SubSeq(s, 1, keep[Len(keep)])

strip(s) == rstrip(lstrip(s))

\* s.replace(a, b) for one-character strings a and b
replace(s, a, b) == [i \in 1..Len(s) |-> IF s[i] = a THEN b ELSE s[i]]

\* s[:n]
Prefix(s, n) == SubSeq(s, 1, IF Len(s) < n THEN Len(s) ELSE n)

startswith(s, p) == Len(p) <= Len(s) /\ SubSeq(s, 1, Len(p)) = p

\* p in s
Contains(s, p) ==
    \E i \in 0..(Len(s) - Len(p)) : SubSeq(s, i + 1, i + Len(p)) = p

\* c * n
Rep(c, n) == [i \in 1..n |-> c]

\* re.sub(r"<set>+", with, s) for a one-character with: of every maximal run
\* of characters of set the first one stays, as with
SubRuns(s, set, with) ==
    LET firsts == SelectSeq(Indices(s),
                            LAMBDA i : ~(s[i] \in set /\ i > 1 /\ s[i - 1] \in set))
    IN  [k \in 1..Len(firsts) |-> IF s[firsts[k]] \in set THEN with ELSE s[firsts[k]]]

Lower == <<"a","b","c","d","e","f","g","h","i","j","k","l","m",
           "n","o","p","q","r","s","t","u","v","w","x","y","z">>
Upper == <<"A","B","C","D","E","F","G","H","I","J","K","L","M",
           "N","O","P","Q","R","S","T","U","V","W","X","Y","Z">>
Digits == <<"0","1","2","3","4","5","6","7","8","9">>
Range(f) == {f[i] : i \in DOMAIN f}

\* the characters the class [a-zA-Z0-9 _.-] matches
FilenameChars == Range(Lower) \cup Range(Upper) \cup Range(Digits) \cup {" ", "_", ".", "-"}

\* re.sub(r"[^a-zA-Z0-9 _.-]+", "", s)
KeepFilenameChars(s) == SelectSeq(s, LAMBDA c : c \in FilenameChars)

---------------------------------------------------------------------------
(* Guards of agent_tools.py *)

MaxFilenameLen == 80

sanitize_title_to_filename(title) ==
    LET t1 == strip(title)
        t2 == replace(replace(t1, "\\", " "), "/", " ")
        t3 == SubRuns(t2, {"."}, ".")
        t4 == KeepFilenameChars(t3)
        t5 == strip(SubRuns(t4, Space, " "))
        t6 == IF t5 = << >> THEN <<"n","o","t","e">> ELSE t5
    IN  replace(strip(Prefix(t6, MaxFilenameLen)), " ", "_")

\* s.split("/")
SplitSlash(s) ==
    LET seps == SelectSeq(Indices(s), LAMBDA i : s[i] = "/")
        n    == Len(seps)
    IN  [k \in 1..(n + 1) |->
            SubSeq(s, IF k = 1 THEN 1 ELSE seps[k - 1] + 1,
                      IF k = n + 1 THEN Len(s) ELSE seps[k] - 1)]

\* the component stack of posixpath.normpath for an absolute path
RECURSIVE NormComps(_, _)
NormComps(comps, acc) ==
    IF comps = << >> THEN acc
    ELSE LET c == Head(comps) IN
         IF c = << >> \/ c = <<".">> THEN NormComps(Tail(comps), acc)
         ELSE IF c = <<".", ".">>
              THEN NormComps(Tail(comps),
                             IF acc = << >> THEN acc ELSE SubSeq(acc, 1, Len(acc) - 1))
              ELSE NormComps(Tail(comps), Append(acc, c))

RECURSIVE JoinSlash(_)
JoinSlash(comps) ==
    IF comps = << >> THEN << >>
    ELSE IF Len(comps) = 1 THEN Head(comps)
         ELSE Head(comps) \o <<"/">> \o JoinSlash(Tail(comps))

\* os.path.abspath of an absolute POSIX path: normpath, which keeps exactly two
\* leading slashes and collapses one or three and more to one
abspath(p) ==
    LET slashes == IF startswith(p, <<"/", "/">>) /\ ~startswith(p, <<"/", "/", "/">>)
                   THEN <<"/", "/">> ELSE <<"/">>
    IN  slashes \o JoinSlash(NormComps(SplitSlash(p), << >>))

\* os.path.join(a, b) for a non-empty a
pathjoin(a, b) ==
    IF startswith(b, <<"/">>) THEN b
    ELSE IF a[Len(a)] = "/" THEN a \o b
    ELSE a \o <<"/">> \o b

NotesDir == <<"/", "a", "p", "p", "/", "n", "o", "t", "e", "s">>

\* safe_join with the prefix test made without the separator
safe_join_no_sep(base_dir, filename) ==
    LET base_abs == abspath(base_dir)
        target   == abspath(pathjoin(base_abs, filename))
    IN  IF ~startswith(target, base_abs) /\ target # base_abs
        THEN [ok |-> FALSE, path |-> << >>]
        ELSE [ok |-> TRUE, path |-> target]

\* [ok, path]: ok = FALSE is ValueError("Blocked path traversal")
safe_join(base_dir, filename) ==
    LET base_abs == abspath(base_dir)
        target   == abspath(pathjoin(base_abs, filename))
    IN  IF ~startswith(target, base_abs \o <<"/">>) /\ target # base_abs
        THEN [ok |-> FALSE, path |-> << >>]
        ELSE [ok |-> TRUE, path |-> target]


---------------------------------------------------------------------------
(* JSON values and the Python operations main.py applies to them *)

JNull == [t |-> "null"]
JBool(b) == [t |-> "bool", b |-> b]
JInt(n) == [t |-> "int", n |-> n]
JStr(s) == [t |-> "str", s |-> s]
JList(items) == [t |-> "list", items |-> items]
JDict(d) == [t |-> "dict", d |-> d]

\* bool(v)
Truthy(v) ==
    CASE v.t = "null" -> FALSE
      [] v.t = "bool" -> v.b
      [] v.t = "int"  -> v.n # 0
      [] v.t = "str"  -> v.s # << >>
      [] v.t = "list" -> v.items # << >>
      [] v.t = "dict" -> DOMAIN v.d # {}

\* d.get(key, default) on a dict value
DictGet(v, key, default) == IF key \in DOMAIN v.d THEN v.d[key] ELSE default

\* a or b
Or(a, b) == IF Truthy(a) THEN a ELSE b

\* str(v) for the values a tool name can be
Str(v) ==
    CASE v.t = "str"  -> v.s
      [] v.t = "null" -> <<"N","o","n","e">>
      [] v.t = "bool" -> IF v.b THEN <<"T","r","u","e">> ELSE <<"F","a","l","s","e">>
      [] v.t = "int"  -> IF v.n \in 0..9 THEN <<Digits[v.n + 1]>> ELSE <<"#">>
      [] v.t = "list" -> <<"[", "]">>
      [] v.t = "dict" -> <<"{", "}">>

---------------------------------------------------------------------------
(* Tool schemas: pydantic models with extra="forbid" *)

TopKMin == 1
TopKMax == 10
TopKDefault == 5
TitleMaxLen == 120

DigitVal(c) == (CHOOSE i \in 1..10 : Digits[i] = c) - 1

RECURSIVE DigitsVal(_, _)
DigitsVal(s, acc) ==
    IF s = << >> THEN acc ELSE DigitsVal(Tail(s), 10 * acc + DigitVal(Head(s)))

\* pydantic's lax int: an int, a bool, or a string of decimal digits
IntOf(v) ==
    CASE v.t = "int"  -> [ok |-> TRUE, n |-> v.n]
      [] v.t = "bool" -> [ok |-> TRUE, n |-> IF v.b THEN 1 ELSE 0]
      [] v.t = "str" /\ v.s # << >> /\ \A i \in DOMAIN v.s : v.s[i] \in Range(Digits)
                      -> [ok |-> TRUE, n |-> DigitsVal(v.s, 0)]
      [] OTHER        -> [ok |-> FALSE, n |-> 0]

\* a str field with min_length and max_length (0: no maximum)
StrFieldOk(args, key, min, max) ==
    /\ key \in DOMAIN args.d
    /\ args.d[key].t = "str"
    /\ Len(args.d[key].s) >= min
    /\ (max = 0 \/ Len(args.d[key].s) <= max)

Invalid(e) == [ok |-> FALSE, err |-> e]

\* SearchDocsArgs with Field(5, ge=1) only
SearchDocsArgs_no_le(args) ==
    IF args.t # "dict" THEN Invalid("TypeError")
    ELSE IF ~(DOMAIN args.d \subseteq {"query", "top_k"}) THEN Invalid("ValidationError")
    ELSE IF ~StrFieldOk(args, "query", 1, 0) THEN Invalid("ValidationError")
    ELSE LET k == IF "top_k" \in DOMAIN args.d THEN IntOf(args.d["top_k"])
                  ELSE [ok |-> TRUE, n |-> TopKDefault]
         IN  IF k.ok /\ k.n >= TopKMin
             THEN [ok |-> TRUE, query |-> args.d["query"].s, top_k |-> k.n]
             ELSE Invalid("ValidationError")

\* SearchDocsArgs that clamps top_k into 1..10
SearchDocsArgs_clamp(args) ==
    IF args.t # "dict" THEN Invalid("TypeError")
    ELSE IF ~(DOMAIN args.d \subseteq {"query", "top_k"}) THEN Invalid("ValidationError")
    ELSE IF ~StrFieldOk(args, "query", 1, 0) THEN Invalid("ValidationError")
    ELSE LET k == IF "top_k" \in DOMAIN args.d THEN IntOf(args.d["top_k"])
                  ELSE [ok |-> TRUE, n |-> TopKDefault]
         IN  IF k.ok
             THEN [ok |-> TRUE, query |-> args.d["query"].s,
                   top_k |-> IF k.n < TopKMin THEN TopKMin
                             ELSE IF k.n > TopKMax THEN TopKMax ELSE k.n]
             ELSE Invalid("ValidationError")

\* SearchDocsArgs(**args)
SearchDocsArgs(args) ==
    IF args.t # "dict" THEN Invalid("TypeError")
    ELSE IF ~(DOMAIN args.d \subseteq {"query", "top_k"}) THEN Invalid("ValidationError")
    ELSE IF ~StrFieldOk(args, "query", 1, 0) THEN Invalid("ValidationError")
    ELSE LET k == IF "top_k" \in DOMAIN args.d THEN IntOf(args.d["top_k"])
                  ELSE [ok |-> TRUE, n |-> TopKDefault]
         IN  IF k.ok /\ k.n >= TopKMin /\ k.n <= TopKMax
             THEN [ok |-> TRUE, query |-> args.d["query"].s, top_k |-> k.n]
             ELSE Invalid("ValidationError")

\* WriteNoteArgs(**args)
WriteNoteArgs(args) ==
    IF args.t # "dict" THEN Invalid("TypeError")
    ELSE IF ~(DOMAIN args.d \subseteq {"title", "content"}) THEN Invalid("ValidationError")
    ELSE IF StrFieldOk(args, "title", 1, TitleMaxLen) /\ StrFieldOk(args, "content", 1, 0)
         THEN [ok |-> TRUE, title |-> args.d["title"].s, content |-> args.d["content"].s]
         ELSE Invalid("ValidationError")

\* MakeTodoArgs(**args)
MakeTodoArgs(args) ==
    IF args.t # "dict" THEN Invalid("TypeError")
    ELSE IF ~(DOMAIN args.d \subseteq {"text"}) THEN Invalid("ValidationError")
    ELSE IF StrFieldOk(args, "text", 1, 0)
         THEN [ok |-> TRUE, text |-> args.d["text"].s]
         ELSE Invalid("ValidationError")

---------------------------------------------------------------------------
(* Tool handlers.  Each returns                                            *)
(*   [ok, out, err, runs, retrieved, fs]:                                   *)
(* the result or the exception, the handler invocations and retrieve calls *)
(* made, and the notes directory afterwards.                               *)

SnippetLen == 240
NoOut == [none |-> TRUE]

Raised(e, runs, retrieved, fs) ==
    [ok |-> FALSE, out |-> NoOut, err |-> e, runs |-> runs,
     retrieved |-> retrieved, fs |-> fs]

Returned(out, runs, retrieved, fs) ==
    [ok |-> TRUE, out |-> out, err |-> "", runs |-> runs,
     retrieved |-> retrieved, fs |-> fs]

\* one hit of tool_search_docs from a point's payload
HitOf(p) ==
    LET text    == strip(p.text)
        snippet == strip(replace(IF p.snippet # << >> THEN p.snippet
                                 ELSE Prefix(text, SnippetLen), "\n", " "))
    IN  [file |-> p.file, chunk_id |-> p.chunk_id, text |-> text, snippet |-> snippet]

CitationOf(h) == [file |-> h.file, chunk_id |-> h.chunk_id, snippet |-> h.snippet]

SeqMap(Op(_), s) == [i \in 1..Len(s) |-> Op(s[i])]

\* retrieve(query, top_k): found is [ok |-> FALSE] when the embedding or the
\* index call raises, else [ok |-> TRUE, hits |-> the index's ranking], of which
\* search(limit=top_k) returns the first top_k
retrieve(query, k, found) ==
    IF found.ok THEN [ok |-> TRUE, hits |-> Prefix(found.hits, k)] ELSE [ok |-> FALSE]

tool_search_docs(query, k, found, fs) ==
    LET run  == [handler |-> "search_docs", args |-> [query |-> query, top_k |-> k]]
        ret  == [query |-> query, top_k |-> k]
        hits == retrieve(query, k, found)
    IN  IF ~hits.ok THEN Raised("RemoteServiceError", <<run>>, <<ret>>, fs)
        ELSE LET out == SeqMap(HitOf, hits.hits)
             IN  Returned([hits |-> out, citations |-> SeqMap(CitationOf, out)],
                          <<run>>, <<ret>>, fs)

MdSuffix == <<".", "m", "d">>

WriteFile(fs, path, text) ==
    {f \in fs : f.path # path} \cup {[path |-> path, text |-> text]}

tool_write_note(title, content, notes_dir, fs) ==
    LET run   == [handler |-> "write_note", args |-> [title |-> title, content |-> content]]
        fname == sanitize_title_to_filename(title) \o MdSuffix
        j     == safe_join(notes_dir, fname)
        text  == <<"#", " ">> \o strip(title) \o <<"\n", "\n">> \o strip(content) \o <<"\n">>
    IN  IF ~j.ok THEN Raised("Blocked path traversal", <<run>>, << >>, fs)
        ELSE Returned([note_path |-> j.path], <<run>>, << >>, WriteFile(fs, j.path, text))

\* text.splitlines(), for the line breaks \n, \r and \r\n
RECURSIVE SplitLines(_, _)
SplitLines(s, cur) ==
    IF s = << >> THEN (IF cur = << >> THEN << >> ELSE <<cur>>)
    ELSE IF Head(s) = "\r" /\ Len(s) > 1 /\ s[2] = "\n"
         THEN <<cur>> \o SplitLines(Tail(Tail(s)), << >>)
    ELSE IF Head(s) \in {"\n", "\r"} THEN <<cur>> \o SplitLines(Tail(s), << >>)
    ELSE SplitLines(Tail(s), Append(cur, Head(s)))

RECURSIVE DropWhile(_, _)
DropWhile(s, set) ==
    IF s # << >> /\ Head(s) \in set THEN DropWhile(Tail(s), set) ELSE s

\* TodoLine that knows the bullets - and * only
TodoLine_bullets_only(ln) ==
    IF Len(ln) > 1 /\ Head(ln) \in {"-", "*"} /\ ln[2] \in Space
    THEN [ok |-> TRUE, item |-> strip(Tail(ln))]
    ELSE [ok |-> FALSE, item |-> << >>]

\* re.match(r"^(\-|\*|\d+[\).\]])\s+(.*)$", ln): [ok, item], item = group(2).strip()
TodoLine(ln) ==
    LET afterDigits == DropWhile(ln, Range(Digits))
        rest == IF ln # << >> /\ Head(ln) \in {"-", "*"} THEN <<Tail(ln)>>
                ELSE IF /\ ln # << >> /\ Head(ln) \in Range(Digits)
                        /\ afterDigits # << >> /\ Head(afterDigits) \in {")", ".", "]"}
                     THEN <<Tail(afterDigits)>>
                     ELSE << >>
    IN  IF rest # << >> /\ rest[1] # << >> /\ Head(rest[1]) \in Space
        THEN [ok |-> TRUE, item |-> strip(rest[1])]
        ELSE [ok |-> FALSE, item |-> << >>]

SentenceEnd == {"U+3002", ".", "!", "?"}

\* re.split(r"[U+3002.!?]\s+|\n+", s)
RECURSIVE SplitSentences(_, _)
SplitSentences(s, cur) ==
    IF s = << >> THEN <<cur>>
    ELSE IF Head(s) \in SentenceEnd /\ Len(s) > 1 /\ s[2] \in Space
         THEN <<cur>> \o SplitSentences(DropWhile(Tail(s), Space), << >>)
    ELSE IF Head(s) = "\n"
         THEN <<cur>> \o SplitSentences(DropWhile(s, {"\n"}), << >>)
    ELSE SplitSentences(Tail(s), Append(cur, Head(s)))

MaxFallbackTodos == 8

NonEmpty(x) == x # << >>

tool_make_todo_from_answer(text, fs) ==
    LET run     == [handler |-> "make_todo_from_answer", args |-> [text |-> text]]
        lines   == SelectSeq(SeqMap(strip, SplitLines(text, << >>)), NonEmpty)
        matches == SeqMap(TodoLine, lines)
        marked  == SeqMap(LAMBDA m : m.item, SelectSeq(matches, LAMBDA m : m.ok))
        parts   == SelectSeq(SeqMap(strip, SplitSentences(strip(text), << >>)), NonEmpty)
        items   == IF marked # << >> THEN marked ELSE Prefix(parts, MaxFallbackTodos)
    IN  Returned([todos |-> [i \in 1..Len(items) |-> [id |-> i, task |-> items[i]]]],
                 <<run>>, << >>, fs)

---------------------------------------------------------------------------
(* Tool router *)

SEARCH_DOCS == <<"s","e","a","r","c","h","_","d","o","c","s">>
WRITE_NOTE == <<"w","r","i","t","e","_","n","o","t","e">>
MAKE_TODO == <<"m","a","k","e","_","t","o","d","o","_","f","r","o","m","_",
               "a","n","s","w","e","r">>

ToolNames == {SEARCH_DOCS, WRITE_NOTE, MAKE_TODO}

\* execute_tool that compares the name after name.strip()
execute_tool_stripped(name, args, found, fs) ==
    IF strip(name) = SEARCH_DOCS
    THEN LET parsed == SearchDocsArgs(args)
         IN  IF parsed.ok THEN tool_search_docs(parsed.query, parsed.top_k, found, fs)
             ELSE Raised(parsed.err, << >>, << >>, fs)
    ELSE IF strip(name) = WRITE_NOTE
    THEN LET parsed == WriteNoteArgs(args)
         IN  IF parsed.ok THEN tool_write_note(parsed.title, parsed.content, NotesDir, fs)
             ELSE Raised(parsed.err, << >>, << >>, fs)
    ELSE IF strip(name) = MAKE_TODO
    THEN LET parsed == MakeTodoArgs(args)
         IN  IF parsed.ok THEN tool_make_todo_from_answer(parsed.text, fs)
             ELSE Raised(parsed.err, << >>, << >>, fs)
    ELSE Raised("Tool not allowed", << >>, << >>, fs)

\* execute_tool(name, args), with what retrieve would return and the notes directory
execute_tool(name, args, found, fs) ==
    IF name = SEARCH_DOCS
    THEN LET parsed == SearchDocsArgs(args)
         IN  IF parsed.ok THEN tool_search_docs(parsed.query, parsed.top_k, found, fs)
             ELSE Raised(parsed.err, << >>, << >>, fs)
    ELSE IF name = WRITE_NOTE
    THEN LET parsed == WriteNoteArgs(args)
         IN  IF parsed.ok THEN tool_write_note(parsed.title, parsed.content, NotesDir, fs)
             ELSE Raised(parsed.err, << >>, << >>, fs)
    ELSE IF name = MAKE_TODO
    THEN LET parsed == MakeTodoArgs(args)
         IN  IF parsed.ok THEN tool_make_todo_from_answer(parsed.text, fs)
             ELSE Raised(parsed.err, << >>, << >>, fs)
    ELSE Raised("Tool not allowed", << >>, << >>, fs)

---------------------------------------------------------------------------
(* Audit log and source block *)

\* append_jsonl that opens the file with mode "w"
append_jsonl_truncating(file, record) == <<record>>

\* append_jsonl(log_path, record): one line written at the end of the file
append_jsonl(file, record) == Append(file, record)

RECURSIVE IntStr(_)
IntStr(n) ==
    IF n < 0 THEN <<"-">> \o IntStr(0 - n)
    ELSE IF n < 10 THEN <<Digits[n + 1]>>
    ELSE IntStr(n \div 10) \o <<Digits[(n % 10) + 1]>>

RECURSIVE JoinWith(_, _)
JoinWith(parts, sep) ==
    IF parts = << >> THEN << >>
    ELSE IF Len(parts) = 1 THEN Head(parts)
         ELSE Head(parts) \o sep \o JoinWith(Tail(parts), sep)

\* SourceBlock that strips the text of the hit
SourceBlock_stripped(h) ==
    <<"<<SOURCE file=">> \o h.file \o <<" chunk_id=">> \o IntStr(h.chunk_id)
        \o <<">>", "\n">> \o strip(h.text) \o <<"\n", "<<END>>">>

\* the literal markers are single elements of the text
SourceBlock(h) ==
    <<"<<SOURCE file=">> \o h.file \o <<" chunk_id=">> \o IntStr(h.chunk_id)
        \o <<">>", "\n">> \o h.text \o <<"\n", "<<END>>">>

build_sources_block(hits_payload) ==
    JoinWith(SeqMap(SourceBlock, hits_payload), <<"\n", "\n">>)

---------------------------------------------------------------------------
(* The external services: the chat model and the vector index *)

\* number of concurrent agent requests, and the longest tool_calls list the
\* chat model returns
NumReqs == 2
MaxPlanLen == 2

Reqs == 1..NumReqs

P1 == [file |-> <<"a", ".", "m", "d">>, chunk_id |-> 0,
       text |-> <<" ", "I", "G", "N", "O", "R", "E", "\n", "x">>, snippet |-> << >>]
P2 == [file |-> <<"b", ".", "m", "d">>, chunk_id |-> 12,
       text |-> <<"y">>, snippet |-> <<"y">>]

\* the rankings the index can answer a search with
Rankings == {<< >>, <<P1>>, <<P2, P1>>}

\* what the embedding service and the index answer a retrieve call with
IndexAnswers == {[ok |-> FALSE]} \cup {[ok |-> TRUE, hits |-> rk] : rk \in Rankings}

\* what the chat model can answer
Answers == {<< >>, <<"-", " ", "a", "\n", "-", " ", "b">>}

---------------------------------------------------------------------------
(* The inputs of a request: the task, top_k and the text of the plan reply *)

ChatSteps == JList(<<JStr(<<"s", "1">>)>>)

Q == <<"q">>

Call(name, args) == JDict([name |-> JStr(name), args |-> JDict(args)])

SearchOk    == Call(SEARCH_DOCS, [query |-> JStr(Q), top_k |-> JInt(1)])
SearchBadK  == Call(SEARCH_DOCS, [query |-> JStr(Q), top_k |-> JInt(11)])
NoteOk      == Call(WRITE_NOTE, [title |-> JStr(<<".", ".", "/", "x">>), content |-> JStr(<<"c">>)])
NoteBad     == Call(WRITE_NOTE, [title |-> JStr(<< >>), content |-> JStr(<<"c">>)])
TodoOk      == Call(MAKE_TODO, [text |-> JStr(<<"-", " ", "a">>)])
Unknown     == Call(<<"d", "e", "l", "e", "t", "e">>, << >>)
ArgsList    == JDict([name |-> JStr(SEARCH_DOCS), args |-> JList(<<JInt(1)>>)])
NotADict    == JStr(<<"s", "e", "a", "r", "c", "h">>)

\* the entries a tool_calls list of the model is made of
Entries == {SearchOk, SearchBadK, NoteOk, NoteBad, TodoOk, Unknown, ArgsList, NotADict}

SeqsUpTo(S, n) == UNION {[1..k -> S] : k \in 0..n}

\* values of "plan" and "tool_calls" that are no JSON array
NonLists == {JNull, JBool(FALSE), JInt(0), JInt(1), JStr(<< >>), JStr(<<"x">>),
             JDict(<< >>), JDict([a |-> JInt(1)])}

\* the JSON objects the model's reply can hold
PlanObjs ==
    {JDict([plan |-> ChatSteps, tool_calls |-> JList(tc)]) : tc \in SeqsUpTo(Entries, MaxPlanLen)}
    \cup {JDict([plan |-> ChatSteps, tool_calls |-> v]) : v \in NonLists}
    \cup {JDict([plan |-> v, tool_calls |-> JList(<<SearchOk>>)]) : v \in NonLists \cup {JList(<< >>)}}
    \cup {JDict([plan |-> ChatSteps]), JDict([tool_calls |-> JList(<<JDict([args |-> JDict([query |-> JStr(Q)])])>>)]), JDict(<< >>)}

\* A reply is a sequence of segments: prose without braces, a JSON object, or
\* a brace-delimited text that is no JSON ("{oops}")
Prose == [k |-> "prose"]
Broken == [k |-> "broken"]
Obj(v) == [k |-> "obj", v |-> v]

PlanTexts ==
    {<< >>, <<Prose>>, <<Broken>>}
    \cup {<<Obj(o)>> : o \in PlanObjs}
    \cup {<<Prose, Obj(JDict([plan |-> ChatSteps, tool_calls |-> JList(<<Unknown>>)])), Prose>>,
          <<Obj(JDict([plan |-> ChatSteps, tool_calls |-> JList(<<Unknown>>)])), Prose,
            Obj(JDict([plan |-> ChatSteps, tool_calls |-> JList(<<TodoOk>>)]))>>}

Tasks == {<<"h", "i">>,
          << >>,
          <<"S", "a", "v", "e">>,
          <<"t", "o", "-", "d", "o", "s">>,
          <<"d", "e", "n", "o", "t", "e", " ", "T", "O", "D", "O">>}

TopKs == {TopKDefault, 11}

---------------------------------------------------------------------------
(* agent(): planning *)

\* re.search(r"\{.*\}", text, re.S) spans from the first "{" to the last "}";
\* json.loads of the span succeeds when the span is one JSON object
_extract_json_obj(text) ==
    LET braces == {i \in DOMAIN text : text[i].k \in {"obj", "broken"}}
        first  == CHOOSE i \in braces : \A j \in braces : i <= j
        last   == CHOOSE i \in braces : \A j \in braces : j <= i
    IN  IF braces = {} THEN [ok |-> FALSE, err |-> "No JSON found"]
        ELSE IF first = last /\ text[first].k = "obj"
             THEN [ok |-> TRUE, v |-> text[first].v]
             ELSE [ok |-> FALSE, err |-> "JSONDecodeError"]

FallbackPlan ==
    JList(<<JStr(<<"Search docs for relevant info">>), JStr(<<"Answer with citations">>)>>)

FallbackCalls(req_task, req_top_k) ==
    <<JDict([name |-> JStr(SEARCH_DOCS),
             args |-> JDict([query |-> JStr(req_task), top_k |-> JInt(req_top_k)])])>>

Fallback(req_task, req_top_k) ==
    [plan |-> FallbackPlan, tool_calls |-> FallbackCalls(req_task, req_top_k),
     fallback |-> TRUE]

\* lines 158-167: the plan and the tool calls of a reply
ParsePlan(text, req_task, req_top_k) ==
    LET obj == _extract_json_obj(text)
    IN  IF ~obj.ok THEN Fallback(req_task, req_top_k)
        ELSE LET p  == Or(DictGet(obj.v, "plan", JNull), JList(<< >>))
                 tc == Or(DictGet(obj.v, "tool_calls", JNull), JList(<< >>))
             IN  IF p.t # "list" \/ tc.t # "list" THEN Fallback(req_task, req_top_k)
                 ELSE [plan |-> p, tool_calls |-> tc.items, fallback |-> FALSE]

LowerChar(c) ==
    IF c \in Range(Upper) THEN Lower[CHOOSE i \in DOMAIN Upper : Upper[i] = c] ELSE c

\* s.lower()
lower(s) == SeqMap(LowerChar, s)

NoteKeywords == {<<"n","o","t","e">>, <<"m","a","r","k","d","o","w","n">>,
                 <<"s","a","v","e">>, <<"w","r","i","t","e","_","n","o","t","e">>,
                 <<"U+8BB0", "U+5F55">>}
TodoKeywords == {<<"t","o","d","o">>, <<"t","o","-","d","o">>,
                 <<"a","c","t","i","o","n"," ","i","t","e","m","s">>,
                 <<"U+5F85", "U+529E">>}

\* the keyword test without .lower()
HasKeyword_exact_case(req_task, keywords) == \E k \in keywords : Contains(req_task, k)

HasKeyword(req_task, keywords) == \E k \in keywords : Contains(lower(req_task), k)

None == [none |-> TRUE]
AgentNote == <<"A","g","e","n","t"," ","N","o","t","e">>

---------------------------------------------------------------------------
(* agent(): the steps of one request *)

Fail(r, e) ==
    /\ pc' = [pc EXCEPT ![r] = "failed"]
    /\ failure' = [failure EXCEPT ![r] = e]

\* line 156: the planning call fails (HTTP error, network error)
PlanModelFails(r) ==
    /\ pc[r] = "plan"
    /\ Fail(r, "model")
    /\ UNCHANGED <<ragVars, task, top_k, plan_text, plan, tool_calls, executed, citations,
                   search_hits_payload, sources_block, answer, note_path, todos,
                   attempts, log, notes, handler_runs, retrieve_calls, call>>

\* lines 156-172: the plan reply arrives and is parsed
Plan(r) ==
    /\ pc[r] = "plan"
    /\ LET parsed == ParsePlan(plan_text[r], task[r], top_k[r])
       IN  /\ plan' = [plan EXCEPT ![r] = parsed.plan]
           /\ tool_calls' = [tool_calls EXCEPT ![r] = parsed.tool_calls]
    /\ executed' = [executed EXCEPT ![r] = << >>]
    /\ citations' = [citations EXCEPT ![r] = << >>]
    /\ search_hits_payload' = [search_hits_payload EXCEPT ![r] = << >>]
    /\ pc' = [pc EXCEPT ![r] = "tools"]
    /\ UNCHANGED <<ragVars, task, top_k, plan_text, sources_block, answer, note_path, todos,
                   failure, attempts, log, notes, handler_runs, retrieve_calls, call>>

\* lines 175-176 on an entry that is no dict: tc.get raises AttributeError
\* outside the try block
ToolEntryRaises(r) ==
    /\ pc[r] = "tools"
    /\ tool_calls[r] # << >>
    /\ Head(tool_calls[r]).t # "dict"
    /\ Fail(r, "AttributeError")
    /\ UNCHANGED <<ragVars, task, top_k, plan_text, plan, tool_calls, executed, citations,
                   search_hits_payload, sources_block, answer, note_path, todos,
                   attempts, log, notes, handler_runs, retrieve_calls, call>>

\* lines 185-187 with the results of every search_docs call accumulated
RetainAfter_extend(name, res, old, field) ==
    IF res.ok /\ name = SEARCH_DOCS THEN old \o res.out[field] ELSE old

\* lines 185-187: a successful search_docs call replaces what is retained
RetainAfter(name, res, old, field) ==
    IF res.ok /\ name = SEARCH_DOCS THEN res.out[field] ELSE old

\* the for loop with line 183 after the try block: every attempt is listed
ExecTool_lists_attempts(r) ==
    /\ pc[r] = "tools"
    /\ tool_calls[r] # << >>
    /\ Head(tool_calls[r]).t = "dict"
    /\ \E found \in IndexAnswers :
        LET tc   == Head(tool_calls[r])
            name == Str(DictGet(tc, "name", JStr(<< >>)))
            args == Or(DictGet(tc, "args", JNull), JDict(<< >>))
        IN  \E res \in {execute_tool(name, args, found, notes)} :
            LET rec == [req |-> r, question |-> task[r], tool |-> name, tool_args |-> args,
                        tool_out |-> res.ok, error |-> res.err]
            IN
            /\ executed' = [executed EXCEPT ![r] = Append(@, [name |-> name, args |-> args])]
            /\ citations' = [citations EXCEPT ![r] = RetainAfter(name, res, @, "citations")]
            /\ search_hits_payload' = [search_hits_payload EXCEPT ![r] =
                    RetainAfter(name, res, @, "hits")]
            /\ attempts' = [attempts EXCEPT ![r] =
                    Append(@, [tool |-> name, ok |-> res.ok, out |-> res.out])]
            /\ log' = append_jsonl(log, rec)
            /\ notes' = res.fs
            /\ handler_runs' = res.runs
            /\ retrieve_calls' = res.retrieved
    /\ tool_calls' = [tool_calls EXCEPT ![r] = Tail(@)]
    /\ UNCHANGED <<ragVars, pc, task, top_k, plan_text, plan, sources_block, answer, note_path,
                   todos, failure, call>>

\* lines 174-197: one iteration of the for loop
ExecTool(r) ==
    /\ pc[r] = "tools"
    /\ tool_calls[r] # << >>
    /\ Head(tool_calls[r]).t = "dict"
    /\ \E found \in IndexAnswers :
        LET tc   == Head(tool_calls[r])
            name == Str(DictGet(tc, "name", JStr(<< >>)))
            args == Or(DictGet(tc, "args", JNull), JDict(<< >>))
        IN  \E res \in {execute_tool(name, args, found, notes)} :
            LET rec == [req |-> r, question |-> task[r], tool |-> name, tool_args |-> args,
                        tool_out |-> res.ok, error |-> res.err]
            IN
            /\ executed' = [executed EXCEPT ![r] =
                    IF res.ok THEN Append(@, [name |-> name, args |-> args]) ELSE @]
            /\ citations' = [citations EXCEPT ![r] = RetainAfter(name, res, @, "citations")]
            /\ search_hits_payload' = [search_hits_payload EXCEPT ![r] =
                    RetainAfter(name, res, @, "hits")]
            /\ attempts' = [attempts EXCEPT ![r] =
                    Append(@, [tool |-> name, ok |-> res.ok, out |-> res.out])]
            /\ log' = append_jsonl(log, rec)
            /\ notes' = res.fs
            /\ handler_runs' = res.runs
            /\ retrieve_calls' = res.retrieved
    /\ tool_calls' = [tool_calls EXCEPT ![r] = Tail(@)]
    /\ UNCHANGED <<ragVars, pc, task, top_k, plan_text, plan, sources_block, answer, note_path,
                   todos, failure, call>>

\* lines 200-214: the loop is over; the answer prompt is built and sent
SendAnswerPrompt(r) ==
    /\ pc[r] = "tools"
    /\ tool_calls[r] = << >>
    /\ sources_block' = [sources_block EXCEPT ![r] =
            IF search_hits_payload[r] # << >>
            THEN build_sources_block(search_hits_payload[r]) ELSE << >>]
    /\ pc' = [pc EXCEPT ![r] = "answer"]
    /\ UNCHANGED <<ragVars, task, top_k, plan_text, plan, tool_calls, executed, citations,
                   search_hits_payload, answer, note_path, todos, failure, attempts,
                   log, notes, handler_runs, retrieve_calls, call>>

\* line 215: the answering call fails
AnswerModelFails(r) ==
    /\ pc[r] = "answer"
    /\ Fail(r, "model")
    /\ UNCHANGED <<ragVars, task, top_k, plan_text, plan, tool_calls, executed, citations,
                   search_hits_payload, sources_block, answer, note_path, todos,
                   attempts, log, notes, handler_runs, retrieve_calls, call>>

\* lines 215-219: the answer arrives
Answer(r) ==
    /\ pc[r] = "answer"
    /\ \E a \in Answers : answer' = [answer EXCEPT ![r] = a]
    /\ note_path' = [note_path EXCEPT ![r] = None]
    /\ todos' = [todos EXCEPT ![r] = None]
    /\ pc' = [pc EXCEPT ![r] = "auto_note"]
    /\ UNCHANGED <<ragVars, task, top_k, plan_text, plan, tool_calls, executed, citations,
                   search_hits_payload, sources_block, failure, attempts, log, notes,
                   handler_runs, retrieve_calls, call>>

\* lines 221-226: the keyword-triggered write_note, outside any try block
AutoNote(r) ==
    /\ pc[r] = "auto_note"
    /\ IF HasKeyword(task[r], NoteKeywords)
       THEN LET args == JDict([title |-> JStr(AgentNote), content |-> JStr(answer[r])])
                rec  == [req |-> r, question |-> task[r],
                         tool |-> WRITE_NOTE \o <<"(", "a", "u", "t", "o", ")">>,
                         tool_args |-> JDict([title |-> JStr(AgentNote)]),
                         tool_out |-> TRUE, error |-> ""]
            IN  \E res \in {execute_tool(WRITE_NOTE, args, [ok |-> FALSE], notes)} :
                /\ attempts' = [attempts EXCEPT ![r] =
                        Append(@, [tool |-> WRITE_NOTE, ok |-> res.ok, out |-> res.out])]
                /\ notes' = res.fs
                /\ handler_runs' = res.runs
                /\ retrieve_calls' = res.retrieved
                /\ IF res.ok
                   THEN /\ note_path' = [note_path EXCEPT ![r] = res.out.note_path]
                        /\ log' = append_jsonl(log, rec)
                        /\ pc' = [pc EXCEPT ![r] = "auto_todo"]
                        /\ UNCHANGED failure
                   ELSE /\ Fail(r, res.err)
                        /\ UNCHANGED <<note_path, log>>
       ELSE /\ pc' = [pc EXCEPT ![r] = "auto_todo"]
            /\ UNCHANGED <<attempts, notes, handler_runs, retrieve_calls, note_path,
                           log, failure>>
    /\ UNCHANGED <<ragVars, task, top_k, plan_text, plan, tool_calls, executed, citations,
                   search_hits_payload, sources_block, answer, todos, call>>

\* lines 228-233: the keyword-triggered make_todo_from_answer, outside any try block
AutoTodo(r) ==
    /\ pc[r] = "auto_todo"
    /\ IF HasKeyword(task[r], TodoKeywords)
       THEN LET args == JDict([text |-> JStr(answer[r])])
                rec  == [req |-> r, question |-> task[r],
                         tool |-> MAKE_TODO \o <<"(", "a", "u", "t", "o", ")">>,
                         tool_args |-> JDict(<< >>),
                         tool_out |-> TRUE, error |-> ""]
            IN  \E res \in {execute_tool(MAKE_TODO, args, [ok |-> FALSE], notes)} :
                /\ attempts' = [attempts EXCEPT ![r] =
                        Append(@, [tool |-> MAKE_TODO, ok |-> res.ok, out |-> res.out])]
                /\ notes' = res.fs
                /\ handler_runs' = res.runs
                /\ retrieve_calls' = res.retrieved
                /\ IF res.ok
                   THEN /\ todos' = [todos EXCEPT ![r] = res.out.todos]
                        /\ log' = append_jsonl(log, rec)
                        /\ pc' = [pc EXCEPT ![r] = "final"]
                        /\ UNCHANGED failure
                   ELSE /\ Fail(r, res.err)
                        /\ UNCHANGED <<todos, log>>
       ELSE /\ pc' = [pc EXCEPT ![r] = "final"]
            /\ UNCHANGED <<attempts, notes, handler_runs, retrieve_calls, todos,
                           log, failure>>
    /\ UNCHANGED <<ragVars, task, top_k, plan_text, plan, tool_calls, executed, citations,
                   search_hits_payload, sources_block, answer, note_path, call>>

FINAL == <<"f", "i", "n", "a", "l">>

\* lines 236-252: the final audit line and the return
Final(r) ==
    /\ pc[r] = "final"
    /\ log' = append_jsonl(log, [req |-> r, question |-> task[r], tool |-> FINAL,
                                 tool_args |-> JDict(<< >>), tool_out |-> TRUE,
                                 error |-> ""])
    /\ pc' = [pc EXCEPT ![r] = "done"]
    /\ UNCHANGED <<ragVars, task, top_k, plan_text, plan, tool_calls, executed, citations,
                   search_hits_payload, sources_block, answer, note_path, todos,
                   failure, attempts, notes, handler_runs, retrieve_calls, call>>

\* the result agent() returns
Result(r) ==
    [plan |-> plan[r], tool_calls |-> executed[r], answer |-> answer[r],
     citations |-> citations[r], note_path |-> note_path[r], todos |-> todos[r]]

NoCall == [fn |-> "none", done |-> TRUE]

\* ingest_directory before its first run
IngestIdle ==
    [at |-> "idle", run |-> 0, files |-> << >>, dim |-> 0, points |-> << >>,
     total |-> 0, files_processed |-> 0, ret |-> None,
     docs0 |-> << >>, before |-> None, prev |-> None]

\* no ingestion run is made
IdleRag ==
    /\ docs = << >>
    /\ collection = None
    /\ ingest = IngestIdle
    /\ remote_calls = << >>
    /\ edits = 0

\* the state of the requests in `active` when the handler is entered, and of
\* the others, which are never made
InitRequests(active, tasks, topks, texts) ==
    /\ pc = [r \in Reqs |-> IF r \in active THEN "plan" ELSE "idle"]
    /\ \E t \in [active -> tasks] :
          task = [r \in Reqs |-> IF r \in active THEN t[r] ELSE << >>]
    /\ \E k \in [active -> topks] :
          top_k = [r \in Reqs |-> IF r \in active THEN k[r] ELSE TopKDefault]
    /\ \E x \in [active -> texts] :
          plan_text = [r \in Reqs |-> IF r \in active THEN x[r] ELSE << >>]
    /\ plan = [r \in Reqs |-> JList(<< >>)]
    /\ tool_calls = [r \in Reqs |-> << >>]
    /\ executed = [r \in Reqs |-> << >>]
    /\ citations = [r \in Reqs |-> << >>]
    /\ search_hits_payload = [r \in Reqs |-> << >>]
    /\ sources_block = [r \in Reqs |-> << >>]
    /\ answer = [r \in Reqs |-> << >>]
    /\ note_path = [r \in Reqs |-> None]
    /\ todos = [r \in Reqs |-> None]
    /\ failure = [r \in Reqs |-> "none"]
    /\ attempts = [r \in Reqs |-> << >>]
    /\ log = << >>
    /\ notes = {}
    /\ handler_runs = << >>
    /\ retrieve_calls = << >>

\* one agent request, with every reply the chat model can give
Init ==
    /\ InitRequests({1}, Tasks, TopKs, PlanTexts)
    /\ call = NoCall
    /\ IdleRag

Next ==
    \E r \in Reqs :
        \/ PlanModelFails(r)
        \/ Plan(r)
        \/ ToolEntryRaises(r)
        \/ ExecTool(r)
        \/ SendAnswerPrompt(r)
        \/ AnswerModelFails(r)
        \/ Answer(r)
        \/ AutoNote(r)
        \/ AutoTodo(r)
        \/ Final(r)

Spec == Init /\ [][Next]_vars

---------------------------------------------------------------------------
(* Concurrent requests: every request of Reqs is in flight, interleaved at  *)
(* the awaits of agent()                                                    *)

ConcTasks == {<<"S", "a", "v", "e">>}
ConcTexts == {<<Obj(JDict([plan |-> ChatSteps, tool_calls |-> JList(<<Unknown>>)]))>>,
              <<Obj(JDict([plan |-> ChatSteps, tool_calls |-> JList(<<NoteOk, NotADict>>)]))>>}

InitConc ==
    /\ InitRequests(Reqs, ConcTasks, {TopKDefault}, ConcTexts)
    /\ call = NoCall
    /\ IdleRag

SpecConc == InitConc /\ [][Next]_vars

---------------------------------------------------------------------------
(* The tool layer called directly, one call from a fresh state, as the     *)
(* tests of tests/test_injection.py call it                                 *)

TitleChars == {" ", "\\", "/", ".", "#", "a"}

LongTitles == {Rep("a", MaxFilenameLen - 1) \o <<" ", "b">>,
               Rep("a", TitleMaxLen),
               Rep("a", TitleMaxLen + 1)}

Titles == SeqsUpTo(TitleChars, MaxTitleLen) \cup LongTitles

NameTokens == {<<"/">>, <<".">>, <<".", ".">>, <<"n", "o", "t", "e", "s">>, <<"x">>}

RECURSIVE Flatten(_)
Flatten(ss) == IF ss = << >> THEN << >> ELSE Head(ss) \o Flatten(Tail(ss))

Pwn == <<".", ".", "/", ".", ".", "/", "p", "w", "n", ".", "m", "d">>

FileNames == {Flatten(ts) : ts \in SeqsUpTo(NameTokens, MaxNameTokens)} \cup {Pwn}

BaseDirs == {NotesDir, NotesDir \o <<"/">>, <<"/">>}

DirectNames == ToolNames \cup {<<"d","e","l","e","t","e","_","e","v","e","r","y","t","h","i","n","g">>,
                               << >>, <<"S","e","a","r","c","h","_","d","o","c","s">>,
                               WRITE_NOTE \o <<" ">>}

ArgTitles == {<<"a">>, << >>, <<".", ".", "/", "x">>, Rep("a", TitleMaxLen),
              Rep("a", TitleMaxLen + 1)}

DirectArgs ==
    {JDict(<< >>), JList(<<JInt(1)>>), JStr(Q),
     JDict([query |-> JStr(Q)]),
     JDict([query |-> JStr(<< >>)]),
     JDict([query |-> JInt(1)]),
     JDict([top_k |-> JInt(1)]),
     JDict([query |-> JStr(Q), top_k |-> JInt(1), model |-> JNull]),
     JDict([title |-> JStr(<<"a">>), content |-> JStr(<<"c">>), notes_dir |-> JStr(<<"/">>)]),
     JDict([title |-> JStr(<<"a">>)]),
     JDict([title |-> JStr(<<"a">>), content |-> JStr(<< >>)]),
     JDict([title |-> JInt(1), content |-> JStr(<<"c">>)]),
     JDict([text |-> JStr(<<"-", " ", "a">>)]),
     JDict([text |-> JStr(<< >>)]),
     JDict([text |-> JNull]),
     JDict([text |-> JStr(<<"a">>), query |-> JStr(Q)])}
    \cup {JDict([query |-> JStr(Q), top_k |-> k]) :
            k \in {JInt(0), JInt(1), JInt(10), JInt(11), JInt(-1), JNull, JBool(TRUE),
                   JBool(FALSE), JStr(<<"2">>), JStr(<<"1", "1">>), JStr(<<"x">>)}}
    \cup {JDict([title |-> JStr(t), content |-> JStr(<<" ", "c">>)]) : t \in ArgTitles}

Pending(fn, in) == [fn |-> fn, in |-> in, done |-> FALSE, ret |-> None]

DirectCalls ==
    {Pending("sanitize_title_to_filename", [title |-> t]) : t \in Titles}
    \cup {Pending("safe_join", [base_dir |-> b, filename |-> f]) : b \in BaseDirs, f \in FileNames}
    \cup {Pending("tool_write_note", [title |-> t, content |-> <<"c">>, notes_dir |-> b]) :
            t \in Titles, b \in {NotesDir, <<"/">>}}
    \cup {Pending("execute_tool", [name |-> n, args |-> a, found |-> f]) :
            n \in DirectNames, a \in DirectArgs, f \in IndexAnswers}

InitTools ==
    /\ InitRequests({}, {}, {}, {})
    /\ call \in DirectCalls
    /\ IdleRag

Done(ret) == [call EXCEPT !.done = TRUE, !.ret = ret]

idleVars == <<pc, task, top_k, plan_text, plan, tool_calls, executed, citations,
              search_hits_payload, sources_block, answer, note_path, todos,
              failure, attempts, log>>

CallSanitize ==
    /\ call.fn = "sanitize_title_to_filename" /\ ~call.done
    /\ call' = Done(sanitize_title_to_filename(call.in.title))
    /\ UNCHANGED <<idleVars, ragVars, notes, handler_runs, retrieve_calls>>

CallSafeJoin ==
    /\ call.fn = "safe_join" /\ ~call.done
    /\ call' = Done(safe_join(call.in.base_dir, call.in.filename))
    /\ UNCHANGED <<idleVars, ragVars, notes, handler_runs, retrieve_calls>>

CallWriteNote ==
    /\ call.fn = "tool_write_note" /\ ~call.done
    /\ LET res == tool_write_note(call.in.title, call.in.content, call.in.notes_dir, notes)
       IN  /\ call' = Done([ok |-> res.ok, out |-> res.out, err |-> res.err])
           /\ notes' = res.fs
           /\ handler_runs' = res.runs
           /\ retrieve_calls' = res.retrieved
    /\ UNCHANGED <<idleVars, ragVars>>

CallExecuteTool ==
    /\ call.fn = "execute_tool" /\ ~call.done
    /\ LET res == execute_tool(call.in.name, call.in.args, call.in.found, notes)
       IN  /\ call' = Done([ok |-> res.ok, out |-> res.out, err |-> res.err])
           /\ notes' = res.fs
           /\ handler_runs' = res.runs
           /\ retrieve_calls' = res.retrieved
    /\ UNCHANGED <<idleVars, ragVars>>

NextTools == CallSanitize \/ CallSafeJoin \/ CallWriteNote \/ CallExecuteTool

SpecTools == InitTools /\ [][NextTools]_vars

---------------------------------------------------------------------------
(* rag.py: normalize_text and chunk_text, the loop taken one iteration at a *)
(* time; the locals of the call in progress are kept in call.loc           *)

MaxTextLen == 5
MaxWindow == 3

DefaultMaxChars == 900
DefaultOverlap == 150

Min(a, b) == IF a < b THEN a ELSE b
Max(a, b) == IF a > b THEN a ELSE b

\* F applied to the value of v, v evaluated once
Bind(v, F(_)) == CHOOSE r \in {F(x) : x \in {v}} : TRUE

\* the sequence s with its elements evaluated
Tup(s) == SubSeq(s, 1, Len(s))

\* s.replace("\r\n", "\n").replace("\r", "\n")
UnifyNewlines(s) ==
    LET keep == SelectSeq(Indices(s),
                          LAMBDA i : ~(s[i] = "\r" /\ i < Len(s) /\ s[i + 1] = "\n"))
    IN  Tup([k \in 1..Len(keep) |-> IF s[keep[k]] = "\r" THEN "\n" ELSE s[keep[k]]])

\* lines 18-20: unify the line ends, re.sub(r"[ \t]+", " ", s), s.strip()
normalize_text(s) ==
    Bind(UnifyNewlines(s), LAMBDA t1 :
    Bind(Tup(SubRuns(t1, {" ", "\t"}, " ")), LAMBDA t2 :
    Bind(lstrip(t2), LAMBDA t3 : rstrip(t3))))

\* lines 32-34: the locals when the loop is entered
ChunkLocals(text) == [text |-> text, n |-> Len(text), start |-> 0, chunks |-> << >>]

\* text[start:end] for Python offsets
Slice(text, start, end) == SubSeq(text, start + 1, end)

\* one iteration that advances the cursor to end, without the overlap
ChunkBody_no_overlap(loc, max_chars, overlap) ==
    LET end   == Min(loc.start + max_chars, loc.n)
        chunk == strip(Slice(loc.text, loc.start, end))
        out   == IF chunk # << >>
                 THEN Append(loc.chunks, [start |-> loc.start, end |-> end, chunk |-> chunk])
                 ELSE loc.chunks
    IN  IF end = loc.n
        THEN [loc |-> [loc EXCEPT !.chunks = out], brk |-> TRUE]
        ELSE [loc |-> [loc EXCEPT !.chunks = out, !.start = end], brk |-> FALSE]

\* one iteration that steps back one character more than the overlap
ChunkBody_overlap_plus_one(loc, max_chars, overlap) ==
    LET end   == Min(loc.start + max_chars, loc.n)
        chunk == strip(Slice(loc.text, loc.start, end))
        out   == IF chunk # << >>
                 THEN Append(loc.chunks, [start |-> loc.start, end |-> end, chunk |-> chunk])
                 ELSE loc.chunks
    IN  IF end = loc.n
        THEN [loc |-> [loc EXCEPT !.chunks = out], brk |-> TRUE]
        ELSE [loc |-> [loc EXCEPT !.chunks = out, !.start = Max(0, end - overlap - 1)],
              brk |-> FALSE]

\* lines 36-42: one iteration; brk = TRUE is the break of line 41
ChunkBody(loc, max_chars, overlap) ==
    LET end   == Min(loc.start + max_chars, loc.n)
        chunk == strip(Slice(loc.text, loc.start, end))
        out   == IF chunk # << >>
                 THEN Append(loc.chunks, [start |-> loc.start, end |-> end, chunk |-> chunk])
                 ELSE loc.chunks
    IN  IF end = loc.n
        THEN [loc |-> [loc EXCEPT !.chunks = out], brk |-> TRUE]
        ELSE [loc |-> [loc EXCEPT !.chunks = out, !.start = Max(0, end - overlap)],
              brk |-> FALSE]

\* lines 35-43: the loop run to its end
RECURSIVE ChunkLoop(_, _, _)
ChunkLoop(loc, max_chars, overlap) ==
    IF ~(loc.start < loc.n) THEN loc.chunks
    ELSE LET r == ChunkBody(loc, max_chars, overlap)
         IN  IF r.brk THEN r.loc.chunks ELSE ChunkLoop(r.loc, max_chars, overlap)

\* chunk_text(text, max_chars, overlap): the list of (start, end, chunk)
chunk_text(text, max_chars, overlap) ==
    LET t == normalize_text(text)
    IN  IF t = << >> THEN << >> ELSE ChunkLoop(ChunkLocals(t), max_chars, overlap)

TextChars == {"a", " ", "\n"}

\* texts with the line endings and blank runs normalize_text rewrites
RawTexts == {<<"a", "\r", "\n", "\r", "\t", " ", "a">>, <<" ", "\t", "\r", "\n">>,
             <<"a", " ", " ", "\t", "a", "\r">>}

ChunkTexts == SeqsUpTo(TextChars, MaxTextLen) \cup RawTexts

\* (max_chars, overlap) with 0 <= overlap < max_chars, as the callers pass
ChunkParams == {p \in (1..MaxWindow) \X (0..MaxWindow) : p[2] < p[1]}

ChunkCalls ==
    {[fn |-> "chunk_text", in |-> [text |-> t, max_chars |-> p[1], overlap |-> p[2]],
      done |-> FALSE, ret |-> << >>, at |-> "enter", loc |-> ChunkLocals(<< >>)] :
        t \in ChunkTexts, p \in ChunkParams}

InitChunk ==
    /\ InitRequests({}, {}, {}, {})
    /\ call \in ChunkCalls
    /\ IdleRag

\* lines 28-34: normalize, return [] for an empty text, else enter the loop
ChunkEnter ==
    /\ call.fn = "chunk_text" /\ ~call.done /\ call.at = "enter"
    /\ \E t \in {normalize_text(call.in.text)} :
          call' = IF t = << >>
                  THEN [call EXCEPT !.done = TRUE, !.ret = << >>, !.at = "return"]
                  ELSE [call EXCEPT !.at = "loop", !.loc = ChunkLocals(t)]
    /\ UNCHANGED <<idleVars, ragVars, notes, handler_runs, retrieve_calls>>

\* lines 35-43: the loop test, then one iteration or the return
ChunkIterate ==
    /\ call.fn = "chunk_text" /\ ~call.done /\ call.at = "loop"
    /\ IF call.loc.start < call.loc.n
       THEN \E r \in {ChunkBody(call.loc, call.in.max_chars, call.in.overlap)} :
                call' = IF r.brk
                        THEN [call EXCEPT !.done = TRUE, !.ret = r.loc.chunks,
                                          !.loc = r.loc, !.at = "return"]
                        ELSE [call EXCEPT !.loc = r.loc]
       ELSE call' = [call EXCEPT !.done = TRUE, !.ret = call.loc.chunks, !.at = "return"]
    /\ UNCHANGED <<idleVars, ragVars, notes, handler_runs, retrieve_calls>>

NextChunk == ChunkEnter \/ ChunkIterate

\* the interpreter runs the call until it returns
SpecChunk == InitChunk /\ [][NextChunk]_vars /\ WF_vars(NextChunk)

---------------------------------------------------------------------------
(* rag.py: ingest_directory, one run after the other over a directory     *)
(* that is edited between the runs; the index and the embedding service   *)
(* answer or fail                                                         *)

\* files in the directory, runs of ingest_directory, edits of the directory
MaxFiles == 2
MaxRuns == 2
MaxEdits == 1

BatchSize == 32
IngestSnippetLen == 240

\* the length of the vectors the embedding model returns
EmbedDim == 2

\* the characters of the paths of the model in code point order
PathChars == <<".", "/">> \o Digits \o Upper \o <<"\\", "_">> \o Lower
ord(c) == CHOOSE i \in DOMAIN PathChars : PathChars[i] = c

\* a < b for two str
StrLess(a, b) ==
    \E k \in 1..(Len(a) + 1) :
        /\ k - 1 <= Len(b)
        /\ SubSeq(a, 1, k - 1) = SubSeq(b, 1, k - 1)
        /\ IF k > Len(a) THEN k <= Len(b)
           ELSE k <= Len(b) /\ ord(a[k]) < ord(b[k])

\* list.sort() of a list with the elements of S
RECURSIVE sorted(_)
sorted(S) ==
    IF S = {} THEN << >>
    ELSE LET m == CHOOSE x \in S : \A y \in S \ {x} : StrLess(x, y)
         IN  <<m>> \o sorted(S \ {m})

\* the last component of a path: the name os.walk yields for the file
basename(p) == LET comps == SplitSlash(p) IN comps[Len(comps)]

\* os.path.splitext(name)[1]: from the last dot on, unless only dots precede it
splitext_ext(name) ==
    LET dots == {i \in DOMAIN name : name[i] = "."}
        dot  == IF dots = {} THEN 0 ELSE CHOOSE i \in dots : \A j \in dots : j <= i
    IN  IF dot > 0 /\ \E i \in 1..(dot - 1) : name[i] # "."
        THEN SubSeq(name, dot, Len(name))
        ELSE << >>

exts == {<<".", "t", "x", "t">>, <<".", "m", "d">>}

\* every file taken, whatever its extension
Eligible_any(rel) == TRUE

\* line 97
Eligible(rel) == Tup(lower(splitext_ext(basename(rel)))) \in exts

DocsDir == <<"/", "a", "p", "p", "/", "d", "o", "c", "s">>

\* lines 94-99: the paths of the eligible files under docs_dir, sorted
GatherFiles(d) == sorted({pathjoin(DocsDir, rel) : rel \in {r \in DOMAIN d : Eligible(r)}})

\* os.path.relpath(path, docs_dir) of a path under docs_dir
relpath(path, start) == SubSeq(path, Len(start) + 2, Len(path))

ProbeText == <<"d","i","m","e","n","s","i","o","n"," ","p","r","o","b","e">>

\* the vector of a text: the same text gives the same vector
Embedding(text) == [of |-> text, len |-> EmbedDim]

\* ollama_embed(texts) when the service answers: one vector for each text
ollama_embed(texts) == Tup([i \in 1..Len(texts) |-> Embedding(texts[i])])

\* uuid.uuid5(NAMESPACE_URL, name): a value that stands for the hash of name
uuid5(name) == [uuid5 |-> name]

ChunkSep == <<":", ":", "c", "h", "u", "n", "k", ":", ":">>

\* batch.index(x): the first position of x, from 0
IndexOf(batch, x) ==
    (CHOOSE k \in DOMAIN batch : batch[k] = x /\ \A j \in 1..(k - 1) : batch[j] # x) - 1

\* the point of chunk c with an id that differs from run to run
PointOf_run_id(rel, i, batch, k, vec) ==
    LET c         == batch[k]
        chunk_idx == i + IndexOf(batch, c)
    IN  [id      |-> uuid5(rel \o ChunkSep \o IntStr(chunk_idx) \o IntStr(ingest.run)),
         vector  |-> vec,
         payload |-> [file |-> rel, chunk_id |-> chunk_idx, start |-> c.start,
                      end |-> c.end, text |-> c.chunk,
                      snippet |-> Tup(replace(Prefix(c.chunk, IngestSnippetLen), "\n", " "))]]

\* lines 132-145: the point of chunk c, the k-th of the batch that starts at i
PointOf(rel, i, batch, k, vec) ==
    LET c         == batch[k]
        chunk_idx == i + IndexOf(batch, c)
    IN  [id      |-> uuid5(rel \o ChunkSep \o IntStr(chunk_idx)),
         vector  |-> vec,
         payload |-> [file |-> rel, chunk_id |-> chunk_idx, start |-> c.start,
                      end |-> c.end, text |-> c.chunk,
                      snippet |-> Tup(replace(Prefix(c.chunk, IngestSnippetLen), "\n", " "))]]

\* chunks[i : i + batch_size]
BatchAt(chunks, i) == SubSeq(chunks, i + 1, Min(i + BatchSize, Len(chunks)))

\* range(0, len(chunks), batch_size)
BatchStarts(chunks) ==
    [b \in 1..((Len(chunks) + BatchSize - 1) \div BatchSize) |-> (b - 1) * BatchSize]

\* [c[2] for c in batch]
BatchTexts(batch) == Tup([k \in 1..Len(batch) |-> batch[k].chunk])

\* lines 126-146 for one file whose embed calls all answer: the points of
\* its chunks in chunk order
FilePoints(rel, chunks) ==
    Tup([j \in 1..Len(chunks) |->
            LET i     == ((j - 1) \div BatchSize) * BatchSize
                batch == BatchAt(chunks, i)
                vecs  == ollama_embed(BatchTexts(batch))
            IN  PointOf(rel, i, batch, j - i, vecs[j - i])])

\* the embed calls of the first n batches of a file, the last one answered or not
EmbedCalls(chunks, n, ok) ==
    LET starts == BatchStarts(chunks)
    IN  Tup([b \in 1..n |-> [op |-> "embed", texts |-> BatchTexts(BatchAt(chunks, starts[b])),
                             ok |-> (b < n \/ ok)]])

\* client.upsert on a reachable index: a point replaces the point of the same id
Upsert(coll, points) ==
    LET last == {k \in DOMAIN points :
                    \A j \in (k + 1)..Len(points) : points[j].id # points[k].id}
    IN  [coll EXCEPT !.points = {q \in @ : \A k \in DOMAIN points : points[k].id # q.id}
                                \cup {points[k] : k \in last}]

\* the index rejects points whose vectors have another size than the collection's
UpsertAccepted(coll, points) ==
    coll # None /\ \A k \in DOMAIN points : points[k].vector.len = coll.dim

IngestResult(points_upserted, files_processed) ==
    [points_upserted |-> points_upserted, files_processed |-> files_processed]

AMd == <<"a", ".", "m", "d">>
SubBTxt == <<"s", "u", "b", "/", "b", ".", "T", "X", "T">>
XPy == <<"x", ".", "p", "y">>
DocNames == {AMd, SubBTxt, XPy}

\* texts of no chunk, of one chunk and of two chunks
Blank == <<" ", "\n">>
Short == <<"a">>
Long == Tup(Rep("a", DefaultMaxChars + 1))
Contents == {Blank, Short, Long}

\* the directories the first run can find: the files ingest_directory skips
\* all hold the same text
DocDirs ==
    {d \in UNION {[ns -> Contents] : ns \in {s \in SUBSET DocNames : Cardinality(s) <= MaxFiles}} :
        \A n \in DOMAIN d : ~Eligible(n) => d[n] = Short}

\* the collection before the first run: absent, or created with the size of
\* the embedding model or with another size
CollectionsAtStart ==
    {None, [dim |-> EmbedDim, points |-> {}], [dim |-> EmbedDim + 1, points |-> {}]}

InitIngest ==
    /\ InitRequests({}, {}, {}, {})
    /\ call = NoCall
    /\ docs \in DocDirs
    /\ collection \in CollectionsAtStart
    /\ ingest = IngestIdle
    /\ remote_calls = << >>
    /\ edits = 0

agentVars == <<idleVars, notes, handler_runs, retrieve_calls, call>>

\* lines 90-102: gather the files, return (0, 0) when there is none
IngestStart ==
    /\ ingest.at \in {"idle", "returned", "raised"}
    /\ ingest.run < MaxRuns
    /\ LET files == GatherFiles(docs)
           run   == [IngestIdle EXCEPT
                        !.run = ingest.run + 1, !.docs0 = docs, !.before = collection,
                        !.prev = IF ingest.at = "returned"
                                 THEN [docs |-> ingest.docs0, ret |-> ingest.ret,
                                       points |-> ingest.points]
                                 ELSE ingest.prev]
       IN  ingest' = IF files = << >>
                     THEN [run EXCEPT !.at = "returned", !.ret = IngestResult(0, 0)]
                     ELSE [run EXCEPT !.at = "probe", !.files = files]
    /\ remote_calls' = << >>
    /\ UNCHANGED <<docs, collection, edits, agentVars>>

\* lines 105-106: the probe; raise_for_status raises when the service fails
IngestProbe ==
    /\ ingest.at = "probe"
    /\ \E ok \in BOOLEAN :
          /\ remote_calls' = Append(remote_calls,
                                    [op |-> "embed", texts |-> <<ProbeText>>, ok |-> ok])
          /\ ingest' = IF ok
                       THEN [ingest EXCEPT !.at = "ensure",
                                           !.dim = ollama_embed(<<ProbeText>>)[1].len]
                       ELSE [ingest EXCEPT !.at = "raised"]
    /\ UNCHANGED <<docs, collection, edits, agentVars>>

\* ensure_collection that creates the collection anew when it exists
IngestEnsure_recreate ==
    /\ ingest.at = "ensure"
    /\ remote_calls' = remote_calls \o
          <<[op |-> "get_collection", ok |-> collection # None],
            [op |-> "create_collection", dim |-> ingest.dim, ok |-> TRUE]>>
    /\ collection' = [dim |-> ingest.dim, points |-> {}]
    /\ ingest' = [ingest EXCEPT !.at = "files"]
    /\ UNCHANGED <<docs, edits, agentVars>>

\* lines 107 and 64-77: ensure_collection; get_collection raises when the
\* collection is absent or the index does not answer, create_collection raises
\* when the collection exists or the index does not answer
IngestEnsure ==
    /\ ingest.at = "ensure"
    /\ \E up \in BOOLEAN :
          LET get == [op |-> "get_collection", ok |-> (up /\ collection # None)]
              create == [op |-> "create_collection", dim |-> ingest.dim,
                         ok |-> (up /\ collection = None)]
          IN  IF get.ok
              THEN /\ remote_calls' = Append(remote_calls, get)
                   /\ ingest' = [ingest EXCEPT !.at = "files"]
                   /\ UNCHANGED collection
              ELSE /\ remote_calls' = remote_calls \o <<get, create>>
                   /\ IF create.ok
                      THEN /\ collection' = [dim |-> ingest.dim, points |-> {}]
                           /\ ingest' = [ingest EXCEPT !.at = "files"]
                      ELSE /\ ingest' = [ingest EXCEPT !.at = "raised"]
                           /\ UNCHANGED collection
    /\ UNCHANGED <<docs, edits, agentVars>>

\* lines 113-146: one file; an embed call that fails ends the run
IngestFile ==
    /\ ingest.at = "files"
    /\ ingest.files # << >>
    /\ LET path   == Head(ingest.files)
           text   == docs[relpath(path, DocsDir)]
           rel    == Tup(replace(relpath(path, DocsDir), "\\", "/"))
       IN  \E chunks \in {chunk_text(text, DefaultMaxChars, DefaultOverlap)} :
             IF chunks = << >>
             THEN /\ ingest' = [ingest EXCEPT !.files = Tail(@)]
                  /\ UNCHANGED remote_calls
             ELSE \E n \in DOMAIN BatchStarts(chunks), ok \in BOOLEAN :
                    /\ ok => n = Len(BatchStarts(chunks))
                    /\ remote_calls' = remote_calls \o EmbedCalls(chunks, n, ok)
                    /\ ingest' = IF ok
                                 THEN [ingest EXCEPT
                                          !.files = Tail(@),
                                          !.files_processed = @ + 1,
                                          !.points = @ \o FilePoints(rel, chunks),
                                          !.total = @ + Len(chunks)]
                                 ELSE [ingest EXCEPT !.at = "raised"]
    /\ UNCHANGED <<docs, collection, edits, agentVars>>

\* lines 148-152: one upsert when there are points, then the result
IngestUpsert ==
    /\ ingest.at = "files"
    /\ ingest.files = << >>
    /\ IF ingest.points = << >>
       THEN /\ ingest' = [ingest EXCEPT !.at = "returned",
                             !.ret = IngestResult(ingest.total, ingest.files_processed)]
            /\ UNCHANGED <<collection, remote_calls>>
       ELSE \E up \in BOOLEAN :
              LET ok == up /\ UpsertAccepted(collection, ingest.points)
              IN  /\ remote_calls' = Append(remote_calls,
                                            [op |-> "upsert", n |-> Len(ingest.points), ok |-> ok])
                  /\ IF ok
                     THEN /\ collection' = Upsert(collection, ingest.points)
                          /\ ingest' = [ingest EXCEPT !.at = "returned",
                                           !.ret = IngestResult(ingest.total,
                                                                ingest.files_processed)]
                     ELSE /\ ingest' = [ingest EXCEPT !.at = "raised"]
                          /\ UNCHANGED collection
    /\ UNCHANGED <<docs, edits, agentVars>>

\* between two runs a file of the directory is written with another text
EditDoc ==
    /\ ingest.at \in {"returned", "raised"}
    /\ edits < MaxEdits
    /\ \E name \in DocNames, text \in Contents :
          /\ name \in DOMAIN docs \/ Cardinality(DOMAIN docs) < MaxFiles
          /\ ~Eligible(name) => text = Short
          /\ name \in DOMAIN docs => docs[name] # text
          /\ docs' = [n \in DOMAIN docs \cup {name} |-> IF n = name THEN text ELSE docs[n]]
    /\ edits' = edits + 1
    /\ UNCHANGED <<collection, ingest, remote_calls, agentVars>>

NextIngest ==
    \/ IngestStart
    \/ IngestProbe
    \/ IngestEnsure
    \/ IngestFile
    \/ IngestUpsert
    \/ EditDoc

SpecIngest == InitIngest /\ [][NextIngest]_vars

---------------------------------------------------------------------------
(* ingest_directory on directories whose file names hold a backslash, and  *)
(* on a file of more chunks than one embedding batch                       *)

ABMd == <<"a", "/", "b", ".", "m", "d">>
ABackslashBMd == <<"a", "\\", "b", ".", "m", "d">>
PathDocNames == {AMd, ABMd, ABackslashBMd}

\* a text of BatchSize + 2 chunks
Huge == Tup(Rep("a", BatchSize * (DefaultMaxChars - DefaultOverlap) + DefaultMaxChars + 1))
PathContents == {Short, Long, Huge}

PathDirs ==
    UNION {[ns -> PathContents] : ns \in {s \in SUBSET PathDocNames : Cardinality(s) <= MaxFiles}}

InitIngestPaths ==
    /\ InitRequests({}, {}, {}, {})
    /\ call = NoCall
    /\ docs \in PathDirs
    /\ collection \in CollectionsAtStart
    /\ ingest = IngestIdle
    /\ remote_calls = << >>
    /\ edits = 0

SpecIngestPaths == InitIngestPaths /\ [][NextIngest]_vars

---------------------------------------------------------------------------
(* main.py: chat_rag, and the two entry points that search the index      *)

\* ChatRagRequest(**body): message of at least one character, top_k a lax
\* int in 1..10 with default 5, model a str or null; other keys are ignored
ChatRagRequest(body) ==
    IF body.t # "dict" THEN Invalid("ValidationError")
    ELSE IF ~StrFieldOk(body, "message", 1, 0) THEN Invalid("ValidationError")
    ELSE IF "model" \in DOMAIN body.d /\ body.d["model"].t \notin {"str", "null"}
         THEN Invalid("ValidationError")
    ELSE LET k == IF "top_k" \in DOMAIN body.d THEN IntOf(body.d["top_k"])
                  ELSE [ok |-> TRUE, n |-> TopKDefault]
         IN  IF k.ok /\ k.n >= TopKMin /\ k.n <= TopKMax
             THEN [ok |-> TRUE, message |-> body.d["message"].s, top_k |-> k.n]
             ELSE Invalid("ValidationError")

\* lines 311-317: the citation of one hit
ChatRagCitation(p) ==
    LET text == strip(p.text)
    IN  [file |-> p.file, chunk_id |-> p.chunk_id,
         snippet |-> strip(IF p.snippet # << >> THEN p.snippet ELSE Prefix(text, SnippetLen))]

\* lines 320-322: the block of one hit in the prompt
ChatRagSource(p) ==
    <<"<<SOURCE file=">> \o p.file \o <<" chunk_id=">> \o IntStr(p.chunk_id)
        \o <<">>", "\n">> \o strip(p.text) \o <<"\n", "<<END>>">>

\* what the request body of chat_rag and of agent can hold under "top_k"
KVals == {JInt(0 - 1), JInt(0), JInt(1), JInt(10), JInt(11),
          JStr(<<"7">>), JStr(<<"1", "1">>), JStr(<<"x">>), JNull}

ChatRagBodies ==
    {JDict([message |-> JStr(Q), top_k |-> v]) : v \in KVals}
    \cup {JDict([message |-> JStr(Q)]), JDict([message |-> JStr(<< >>), top_k |-> JInt(3)]),
          JDict([top_k |-> JInt(3)]), JList(<< >>),
          JDict([message |-> JStr(Q), top_k |-> JInt(3), model |-> JNull, extra |-> JInt(1)])}

ChatRagCalls ==
    {Pending("chat_rag", [body |-> b, found |-> f, reply |-> a]) :
        b \in ChatRagBodies, f \in IndexAnswers, a \in Answers}

\* POST /chat_rag: 422 for a body that is no ChatRagRequest, else lines
\* 304-342; an exception of retrieve or of the chat call gives 500
CallChatRag ==
    /\ call.fn = "chat_rag" /\ ~call.done
    /\ LET req == ChatRagRequest(call.in.body)
       IN  IF ~req.ok
           THEN /\ call' = Done([ok |-> FALSE, status |-> 422])
                /\ retrieve_calls' = << >>
           ELSE LET hits == retrieve(req.message, req.top_k, call.in.found)
                IN  /\ retrieve_calls' = <<[query |-> req.message, top_k |-> req.top_k]>>
                    /\ \E chat_ok \in BOOLEAN :
                         call' = IF hits.ok /\ chat_ok
                                 THEN Done([ok |-> TRUE, status |-> 200,
                                            answer |-> call.in.reply,
                                            citations |-> SeqMap(ChatRagCitation, hits.hits),
                                            sources |-> JoinWith(SeqMap(ChatRagSource, hits.hits),
                                                                 <<"\n", "\n">>)])
                                 ELSE Done([ok |-> FALSE, status |-> 500])
    /\ UNCHANGED <<idleVars, ragVars, notes, handler_runs>>

SearchWith(v) == Call(SEARCH_DOCS, [query |-> JStr(Q), top_k |-> v])

\* plan replies that search with every top_k, fall back, or hold an entry
\* that is no object
RetrievalTexts ==
    {<<Prose>>, <<Obj(JDict([plan |-> ChatSteps, tool_calls |-> JList(<<SearchOk, NotADict>>)]))>>,
     <<Obj(JDict([plan |-> ChatSteps,
                  tool_calls |-> JList(<<Call(SEARCH_DOCS, [query |-> JStr(Q)])>>)]))>>}
    \cup {<<Obj(JDict([plan |-> ChatSteps, tool_calls |-> JList(<<SearchWith(v)>>)]))>> :
            v \in KVals}

RetrievalTasks == {<<"h", "i">>, <<"S", "a", "v", "e">>}
RetrievalTopKs == {0 - 1, 0, 1, 10, 11}

\* a request to /agent or a request to /chat_rag
InitRetrieval ==
    /\ IdleRag
    /\ \/ /\ InitRequests({1}, RetrievalTasks, RetrievalTopKs, RetrievalTexts)
          /\ call = NoCall
       \/ /\ InitRequests({}, {}, {}, {})
          /\ call \in ChatRagCalls

NextRetrieval == Next \/ CallChatRag

SpecRetrieval == InitRetrieval /\ [][NextRetrieval]_vars

---------------------------------------------------------------------------
(* agent_tools.py: tool_make_todo_from_answer and build_sources_block      *)
(* called on their own, as tests/test_injection.py calls them              *)

MaxTodoLines == 2
MaxHits == 2

\* lines an answer is made of: bullets, numbered lines, plain lines, lines
\* that only look like markers, sentences
TodoLines ==
    {<<"-", " ", "a">>, <<"*", " ", "b">>, <<"1", ")", " ", "c">>, <<"2", ".", " ", "d">>,
     <<"1", "0", "]", "\t", "e">>, <<"x">>, <<"-", "y">>, <<"1", ".", "5">>, << >>,
     <<" ", "-", " ", " ", "a", " ", "b", " ">>, <<"a", ".", " ", "b", "!", " ", "c">>,
     <<"-">>}

NineSentences ==
    <<"a", ".", " ", "b", ".", " ", "c", "?", " ", "d", ".", " ", "e", "!", " ",
      "f", ".", " ", "g", ".", " ", "h", ".", " ", "i", ".">>

TodoTexts ==
    {JoinWith(ls, <<"\n">>) : ls \in SeqsUpTo(TodoLines, MaxTodoLines)}
    \cup {<<"-", " ", "a", "\n", "-", " ", "b", "\n", "-", " ", "c">>,
          <<"-", " ", "a", "\r", "\n", "x", "\r", "2", ")", " ", "b">>,
          <<"x", "\n", "\n", "y", ".", "z">>,
          NineSentences}

HitFiles == {<<"x", ".", "m", "d">>, <<"a", " ", "b">>}
HitChunkIds == {0, 12}
HitTexts ==
    {<< >>, <<"t">>, <<" ", "t", "\n">>, <<"I", "G", "N", "O", "R", "E", ".">>,
     <<"<", "<", "E", "N", "D", ">", ">", "\n", "\n", "x">>}

HitPayloads ==
    {[file |-> f, chunk_id |-> c, text |-> t, snippet |-> Prefix(t, 1)] :
        f \in HitFiles, c \in HitChunkIds, t \in HitTexts}

TextCalls ==
    {Pending("tool_make_todo_from_answer", [text |-> t]) : t \in TodoTexts}
    \cup {Pending("build_sources_block", [hits_payload |-> hs]) :
            hs \in SeqsUpTo(HitPayloads, MaxHits)}

InitText ==
    /\ InitRequests({}, {}, {}, {})
    /\ call \in TextCalls
    /\ IdleRag

CallMakeTodo ==
    /\ call.fn = "tool_make_todo_from_answer" /\ ~call.done
    /\ LET res == tool_make_todo_from_answer(call.in.text, notes)
       IN  /\ call' = Done(res.out)
           /\ handler_runs' = res.runs
    /\ UNCHANGED <<idleVars, ragVars, notes, retrieve_calls>>

CallBuildSources ==
    /\ call.fn = "build_sources_block" /\ ~call.done
    /\ call' = Done(build_sources_block(call.in.hits_payload))
    /\ UNCHANGED <<idleVars, ragVars, notes, handler_runs, retrieve_calls>>

NextText == CallMakeTodo \/ CallBuildSources

SpecText == InitText /\ [][NextText]_vars

---------------------------------------------------------------------------
(* Properties *)

\* the audit records request r has appended, in file order
RecordsOf(r) == SelectSeq(log, LAMBDA rec : rec.req = r)
ToolRecordsOf(r) == SelectSeq(log, LAMBDA rec : rec.req = r /\ rec.tool # FINAL)
FinalRecordsOf(r) == SelectSeq(log, LAMBDA rec : rec.req = r /\ rec.tool = FINAL)

ToolErrors == {"ValidationError", "TypeError", "Tool not allowed",
               "Blocked path traversal", "RemoteServiceError"}

\* C1: a tool-validation failure or handler exception of any tool call,
\* planned or keyword-triggered, whatever the shape of the tool_calls entries,
\* never ends the request: a request ends in failure only when a model call
\* failed, and every failed tool attempt has its record with the error string.
C1_ToolFailureDoesNotAbort ==
    \A r \in Reqs :
        /\ failure[r] \in {"none", "model"}
        /\ \A i \in DOMAIN attempts[r] :
              ~attempts[r][i].ok =>
                  /\ i <= Len(ToolRecordsOf(r))
                  /\ ToolRecordsOf(r)[i].error \in ToolErrors

\* C2: at any point the tool records a request has appended are as many as
\* the tool attempts it has finished.
C2_OneRecordPerAttempt ==
    \A r \in Reqs : Len(ToolRecordsOf(r)) = Len(attempts[r])

IsValidNoteArgs(args) == WriteNoteArgs(args).ok

\* C3: execute_tool with a name outside the three tool names fails with
\* "Tool not allowed" and runs no handler, makes no retrieve call and writes
\* no note file.
C3_UnknownToolNoSideEffect ==
    (call.fn = "execute_tool" /\ call.done /\ call.in.name \notin ToolNames) =>
        /\ ~call.ret.ok
        /\ call.ret.err = "Tool not allowed"
        /\ handler_runs = << >>
        /\ retrieve_calls = << >>
        /\ notes = {}

\* a name that differs from write_note by whitespace only, with arguments
\* write_note would accept, has been refused
C3_Witness ==
    /\ call.fn = "execute_tool" /\ call.done
    /\ call.in.name = WRITE_NOTE \o <<" ">>
    /\ IsValidNoteArgs(call.in.args)
    /\ ~call.ret.ok

SchemaFields(name) ==
    IF name = SEARCH_DOCS THEN {"query", "top_k"}
    ELSE IF name = WRITE_NOTE THEN {"title", "content"}
    ELSE IF name = MAKE_TODO THEN {"text"}
    ELSE {}

ValidatedRun(h) ==
    CASE h.handler = "search_docs" ->
            Len(h.args.query) >= 1 /\ h.args.top_k \in 1..10
      [] h.handler = "write_note" ->
            Len(h.args.title) \in 1..120 /\ Len(h.args.content) >= 1
      [] h.handler = "make_todo_from_answer" ->
            Len(h.args.text) >= 1

\* C4: a handler that execute_tool runs gets validated input only (a non-empty
\* query and top_k in 1..10; a title of 1..120 characters and non-empty
\* content; non-empty text), and a mapping with an unknown extra field is
\* rejected with no handler run.
C4_HandlersGetValidatedInput ==
    (call.fn = "execute_tool" /\ call.done) =>
        /\ \A i \in DOMAIN handler_runs : ValidatedRun(handler_runs[i])
        /\ (/\ call.in.args.t = "dict"
            /\ ~(DOMAIN call.in.args.d \subseteq SchemaFields(call.in.name)))
           => (~call.ret.ok /\ handler_runs = << >>)

\* search_docs ran with top_k given as the string "2", read as 2
C4_Witness ==
    /\ call.fn = "execute_tool" /\ call.done
    /\ call.in.args = JDict([query |-> JStr(Q), top_k |-> JStr(<<"2">>)])
    /\ Len(handler_runs) = 1
    /\ handler_runs[1].args.top_k = 2

\* the reply holds no parseable JSON object, or holds one whose plan or
\* tool_calls value is present, not null, and no JSON array
NotASequence(obj, key) == key \in DOMAIN obj.d /\ obj.d[key].t \notin {"list", "null"}

BadReply(text) ==
    LET obj == _extract_json_obj(text)
    IN  \/ ~obj.ok
        \/ NotASequence(obj.v, "plan")
        \/ NotASequence(obj.v, "tool_calls")

\* C5: when the reply cannot be parsed as a JSON object, or its plan or
\* tool_calls value is not a sequence, the tool calls to execute are exactly
\* the fallback search_docs call with the task and the caller's top_k.
C5_FallbackOnBadReply ==
    \A r \in Reqs :
        (pc[r] = "tools" /\ attempts[r] = << >> /\ BadReply(plan_text[r])) =>
            tool_calls[r] = FallbackCalls(task[r], top_k[r])

\* the stages in handler order: PLANNING, EXECUTING_TOOLS, ANSWERING,
\* AUTO_TOOLS (both keyword checks and the final record), DONE
StageOf(p) ==
    CASE p = "plan" -> 1
      [] p = "tools" -> 2
      [] p = "answer" -> 3
      [] p \in {"auto_note", "auto_todo", "final"} -> 4
      [] p = "done" -> 5
      [] OTHER -> 0

InOrder(r) ==
    (pc'[r] # pc[r] /\ pc'[r] # "failed") =>
        StageOf(pc'[r]) \in {StageOf(pc[r]), StageOf(pc[r]) + 1}

\* a request stopped short of DONE: an exception left the handler
Stopped(r) == pc[r] = "failed"

\* C6: a request whose model calls succeed goes through the stages in order
\* and is never stopped short of DONE, whatever the plan text (every stage but
\* DONE has a next step, and the tool loop is finite, so it reaches DONE);
\* once returned it has appended exactly one final record, which is the last
\* record it appended.
C6_ReachesDoneWithOneFinalRecord ==
    /\ [](\A r \in Reqs : Stopped(r) => failure[r] = "model")
    /\ [][\A r \in Reqs : InOrder(r)]_vars
    /\ [](\A r \in Reqs :
            pc[r] = "done" =>
                /\ Len(FinalRecordsOf(r)) = 1
                /\ RecordsOf(r)[Len(RecordsOf(r))].tool = FINAL)

\* the tool records of a request stand in the order of its attempts, its
\* final record after them
LogOrdered ==
    \A r \in Reqs :
        LET recs == RecordsOf(r)
        IN  /\ \A i \in DOMAIN recs :
                  IF i <= Len(attempts[r])
                  THEN startswith(recs[i].tool, attempts[r][i].tool)
                  ELSE recs[i].tool = FINAL /\ i = Len(recs)

\* C7: under any interleaving of the requests the audit file changes only by
\* one whole record appended at its end (no record is changed, removed or
\* reordered), and the records of one request stand in the order it wrote them.
C7_AppendOnly ==
    [][/\ \/ log' = log
          \/ Len(log') = Len(log) + 1 /\ SubSeq(log', 1, Len(log)) = log
       /\ LogOrdered']_vars

\* records of two requests interleaved in the file
C7_Witness ==
    \E i, j, k \in DOMAIN log :
        i < j /\ j < k /\ log[i].req = 1 /\ log[j].req = 2 /\ log[k].req = 1

\* the normalized components of an absolute path
Comps(p) == NormComps(SplitSlash(p), << >>)

StrictlyInside(target, base) ==
    /\ Len(Comps(target)) > Len(Comps(base))
    /\ SubSeq(Comps(target), 1, Len(Comps(base))) = Comps(base)

SameDir(target, base) == Comps(target) = Comps(base)

WritesStayInside ==
    /\ \A f \in notes : StrictlyInside(f.path, NotesDir)
    /\ (call.fn = "tool_write_note" /\ call.done /\ ~call.ret.ok) => notes = {}

\* C8 as stated: safe_join returns a path only when the target is strictly
\* inside base; write_note writes strictly inside the notes directory only
\* and nothing when safe_join fails.
C8_SafeJoinStrictlyInside ==
    /\ (call.fn = "safe_join" /\ call.done /\ call.ret.ok) =>
          StrictlyInside(call.ret.path, call.in.base_dir)
    /\ WritesStayInside

\* C8 amended: safe_join returns a path only when the target is strictly
\* inside base or is base itself; write_note writes strictly inside the
\* notes directory only and nothing when safe_join fails.
C8_SafeJoinInsideOrBase ==
    /\ (call.fn = "safe_join" /\ call.done /\ call.ret.ok) =>
          \/ StrictlyInside(call.ret.path, call.in.base_dir)
          \/ SameDir(call.ret.path, call.in.base_dir)
    /\ (call.fn = "safe_join" /\ call.done /\ ~call.ret.ok) => call.ret.path = << >>
    /\ WritesStayInside

\* safe_join(base, ".") has returned base itself
C8_Witness ==
    /\ call.fn = "safe_join" /\ call.done
    /\ call.in.base_dir = NotesDir
    /\ call.in.filename = <<".">>
    /\ call.ret.ok
    /\ call.ret.path = NotesDir

\* C9: sanitize_title_to_filename returns a non-empty name without "/",
\* without "\" and without "..".
C9_SanitizedNameSafe ==
    (call.fn = "sanitize_title_to_filename" /\ call.done) =>
        /\ call.ret # << >>
        /\ "/" \notin Range(call.ret)
        /\ "\\" \notin Range(call.ret)
        /\ ~Contains(call.ret, <<".", ".">>)

\* the output of the last search_docs attempt that succeeded, none: empty
RECURSIVE LastSearch(_)
LastSearch(att) ==
    IF att = << >> THEN [hits |-> << >>, citations |-> << >>]
    ELSE LET a == att[Len(att)]
         IN  IF a.tool = SEARCH_DOCS /\ a.ok THEN a.out
             ELSE LastSearch(SubSeq(att, 1, Len(att) - 1))

\* C10: the hits and citations retained, used for the answer prompt and
\* returned, are those of the last search_docs call that succeeded; a failed
\* search_docs call and a call of another tool leave them unchanged.
C10_LastSuccessfulSearchWins ==
    \A r \in Reqs :
        /\ citations[r] = LastSearch(attempts[r]).citations
        /\ search_hits_payload[r] = LastSearch(attempts[r]).hits
        /\ pc[r] \in {"answer", "auto_note", "auto_todo", "final", "done"} =>
              sources_block[r] = build_sources_block(LastSearch(attempts[r]).hits)
        /\ pc[r] = "done" => Result(r).citations = LastSearch(attempts[r]).citations

\* two searches of one plan succeeded with different hits, and the request returned
C10_Witness ==
    /\ pc[1] = "done"
    /\ Len(attempts[1]) >= 2
    /\ attempts[1][1].tool = SEARCH_DOCS /\ attempts[1][1].ok
    /\ attempts[1][2].tool = SEARCH_DOCS /\ attempts[1][2].ok
    /\ attempts[1][1].out.hits # << >>
    /\ attempts[1][2].out.hits # << >>
    /\ attempts[1][1].out # attempts[1][2].out

\* the chunk_text call in progress has returned
ChunkReturned == call.fn = "chunk_text" /\ call.done

\* every returned chunk is at most max_chars long, offsets and text
ChunkLengthsBounded ==
    \A i \in DOMAIN call.ret :
        /\ call.ret[i].end - call.ret[i].start <= call.in.max_chars
        /\ Len(call.ret[i].chunk) <= call.in.max_chars

\* how far chunk i + 1 starts after the end of chunk i minus the overlap
GapAfter(i) == call.ret[i + 1].start - (call.ret[i].end - call.in.overlap)

\* C11 as stated: chunk_text returns chunks of at most max_chars characters,
\* and of each pair of consecutive returned chunks, the final chunk set
\* aside, the next starts at the end of the previous minus overlap.
C11_ExactOverlap ==
    ChunkReturned =>
        /\ ChunkLengthsBounded
        /\ \A i \in 1..(Len(call.ret) - 2) : GapAfter(i) = 0

\* C11 amended: chunk_text returns chunks of at most max_chars characters;
\* the first starts at 0, the last ends at the end of the normalized text,
\* and the next of two consecutive returned chunks starts at the end of the
\* previous minus overlap, or later by a whole number of cursor steps
\* (max_chars - overlap) when the windows in between held white space only
\* and were dropped.
C11_OverlapUpToDroppedWindows ==
    ChunkReturned =>
        LET text == normalize_text(call.in.text)
            step == call.in.max_chars - call.in.overlap
        IN  /\ ChunkLengthsBounded
            /\ call.ret # << >> =>
                  /\ call.ret[1].start = 0
                  /\ call.ret[Len(call.ret)].end = Len(text)
            /\ \A i \in 1..(Len(call.ret) - 1) :
                  /\ GapAfter(i) >= 0
                  /\ GapAfter(i) % step = 0
                  /\ \A j \in (call.ret[i].end - call.in.overlap + 1) ..
                              (call.ret[i + 1].start + call.in.overlap) :
                        GapAfter(i) > 0 => text[j] \in Space
            /\ \A i \in DOMAIN call.ret :
                  call.ret[i].chunk = strip(Slice(text, call.ret[i].start, call.ret[i].end))

\* chunk_text returned three chunks with a dropped window after the first
C11_Witness ==
    /\ ChunkReturned
    /\ Len(call.ret) >= 3
    /\ GapAfter(1) > 0
    /\ GapAfter(2) = 0
    /\ call.in.overlap > 0

\* C20: chunk_text terminates for 0 <= overlap < max_chars: the cursor
\* strictly increases on every iteration that does not reach the end of the
\* text, every emitted chunk has start < end, the starts strictly increase,
\* and an empty text yields zero chunks.
C20_ChunkTextTerminates ==
    /\ <>ChunkReturned
    /\ [][(call.at = "loop" /\ call'.at = "loop") =>
              /\ call'.loc.start > call.loc.start
              /\ call'.loc.start < call.loc.n]_vars
    /\ [](call.at \in {"loop", "return"} =>
              /\ \A i \in DOMAIN call.loc.chunks :
                    call.loc.chunks[i].start < call.loc.chunks[i].end
              /\ \A i \in 1..(Len(call.loc.chunks) - 1) :
                    call.loc.chunks[i].start < call.loc.chunks[i + 1].start)
    /\ [](ChunkReturned =>
              /\ normalize_text(call.in.text) = << >> => call.ret = << >>
              /\ call.ret = call.loc.chunks)

\* chunk_text returned after at least four iterations with overlapping windows
C20_Witness ==
    /\ ChunkReturned
    /\ call.in.overlap > 0
    /\ Len(call.ret) >= 4
    /\ call.loc.start >= 3

\* a run of ingest_directory has returned its result
IngestReturned == ingest.at = "returned"

\* the run was made over the directory of the last run that returned
SameDirectoryAsBefore == ingest.prev # None /\ ingest.prev.docs = ingest.docs0

\* C12: a run of ingest_directory over the directory of the run before
\* computes the same points, ids and payloads, reports the same
\* files_processed and points_upserted, and leaves the points of the
\* collection as the run before left them.
C12_ReingestUnchangedIsNoOp ==
    (ingest.run >= 1 /\ SameDirectoryAsBefore) =>
        /\ collection = ingest.before
        /\ IngestReturned =>
              /\ ingest.points = ingest.prev.points
              /\ ingest.ret = ingest.prev.ret
              /\ ingest.points # << >> => Range(ingest.points) \subseteq collection.points

\* the second run over an unchanged directory with a file of two chunks has returned
C12_Witness ==
    /\ IngestReturned
    /\ ingest.run = 2
    /\ SameDirectoryAsBefore
    /\ edits = 0
    /\ ingest.ret.points_upserted >= 3
    /\ ingest.ret.files_processed = 2
    /\ Cardinality(collection.points) = ingest.ret.points_upserted

\* the files the run has ingested
Reingested == {Tup(replace(relpath(f, DocsDir), "\\", "/")) : f \in Range(GatherFiles(ingest.docs0))}

\* C13: after a run has returned, the collection holds for every file the
\* run ingested only the points of that run: the points an earlier run
\* wrote for the file are superseded, also when the file has fewer chunks now.
C13_SupersededNotMerged ==
    (IngestReturned /\ collection # None) =>
        \A q \in collection.points :
            q.payload.file \in Reingested => q \in Range(ingest.points)

\* the directory holds no file whose name ends in .txt or .md, in any case
EndsWith(s, e) == Len(e) <= Len(s) /\ SubSeq(s, Len(s) - Len(e) + 1, Len(s)) = e
NoTxtOrMd(d) ==
    \A n \in DOMAIN d : \A e \in exts : ~EndsWith(Tup(lower(n)), e)

\* C14: a run over a directory without a .txt or .md file returns
\* files_processed = 0 and points_upserted = 0 and makes no embedding call
\* and no index call: no collection lookup, no creation, no upsert.
C14_NoEligibleFileNoRemoteCall ==
    (ingest.run >= 1 /\ (NoTxtOrMd(ingest.docs0) \/ GatherFiles(ingest.docs0) = << >>)) =>
        /\ IngestReturned
        /\ ingest.ret = IngestResult(0, 0)
        /\ remote_calls = << >>
        /\ collection = ingest.before

\* a run over a directory that holds x.py only has returned
C14_Witness ==
    /\ IngestReturned
    /\ DOMAIN ingest.docs0 = {XPy}
    /\ ingest.ret = IngestResult(0, 0)
    /\ ingest.run = 1

\* the chunks of the eligible files of directory d
RECURSIVE ChunkCount(_, _)
ChunkCount(d, files) ==
    IF files = << >> THEN 0
    ELSE Len(chunk_text(d[relpath(Head(files), DocsDir)], DefaultMaxChars, DefaultOverlap))
         + ChunkCount(d, Tail(files))

OpsOf(calls) == [i \in DOMAIN calls |-> calls[i].op]

\* C18: in a run that finds an eligible file the first embedding call, and
\* first remote call, is the probe of one text; ensure_collection, called
\* with the probed size, comes before every upsert; there is at most one
\* upsert, the last call, made when all files are chunked and embedded; and
\* ensure_collection leaves a collection that exists as it is.
C18_ProbeEnsureThenOneUpsert ==
    /\ [](remote_calls # << >> =>
            /\ remote_calls[1].op = "embed"
            /\ remote_calls[1].texts = <<ProbeText>>)
    /\ [](\A i \in DOMAIN remote_calls :
            /\ remote_calls[i].op = "get_collection" => i = 2 /\ remote_calls[1].ok
            /\ remote_calls[i].op = "create_collection" =>
                  /\ i = 3 /\ ~remote_calls[2].ok
                  /\ remote_calls[i].dim = ollama_embed(<<ProbeText>>)[1].len
            /\ remote_calls[i].op = "embed" /\ i > 1 => i > 2 /\ remote_calls[i - 1].ok
            /\ remote_calls[i].op = "upsert" =>
                  /\ i = Len(remote_calls) /\ i > 2
                  /\ remote_calls[2].op = "get_collection"
                  /\ remote_calls[i - 1].ok
                  /\ ingest.files = << >>
                  /\ remote_calls[i].n = ChunkCount(ingest.docs0, GatherFiles(ingest.docs0))
                  /\ \A j \in 1..(i - 1) : remote_calls[j].op # "upsert")
    /\ [][(ingest.at = "ensure" /\ collection # None) => collection' = collection]_vars
    /\ [][collection' # collection =>
            \/ ingest.at = "ensure" /\ collection = None
            \/ ingest.at = "files" /\ ingest.files = << >> /\ ingest'.at = "returned"]_vars

\* a run found a collection of another size, left it, embedded two files,
\* one of them in two chunks, and its one upsert was rejected
C18_Witness ==
    /\ ingest.at = "raised"
    /\ collection = [dim |-> EmbedDim + 1, points |-> {}]
    /\ Len(remote_calls) = 5
    /\ OpsOf(remote_calls) = <<"embed", "get_collection", "embed", "embed", "upsert">>
    /\ remote_calls[5].n = 3

\* top_k as the caller gave it: the lax int of "top_k", 5 when it is absent
RequestedK(args) ==
    IF "top_k" \in DOMAIN args.d THEN IntOf(args.d["top_k"])
    ELSE [ok |-> TRUE, n |-> TopKDefault]

InRange(k) == k.ok /\ k.n \in 1..10

LastRecord == log[Len(log)]

\* chat_rag has answered a body whose message is valid: a top_k in 1..10 was
\* searched with as given, any other was answered 422 without a search
ChatRagTopKChecked ==
    (call.fn = "chat_rag" /\ call.done /\ call.in.body.t = "dict"
        /\ StrFieldOk(call.in.body, "message", 1, 0)
        /\ ("model" \in DOMAIN call.in.body.d => call.in.body.d["model"].t \in {"str", "null"})) =>
      IF InRange(RequestedK(call.in.body))
      THEN /\ call.ret.status # 422
           /\ retrieve_calls = <<[query |-> call.in.body.d["message"].s,
                                  top_k |-> RequestedK(call.in.body).n]>>
      ELSE /\ call.ret.status = 422
           /\ retrieve_calls = << >>

\* a step of the tool loop that attempts search_docs with a valid query: a
\* top_k in 1..10 is searched with as given, any other is recorded as a
\* ValidationError without a search
AgentTopKChecked ==
    (Len(log') = Len(log) + 1 /\ log'[Len(log')].tool = SEARCH_DOCS
        /\ log'[Len(log')].tool_args.t = "dict"
        /\ StrFieldOk(log'[Len(log')].tool_args, "query", 1, 0)
        /\ DOMAIN log'[Len(log')].tool_args.d \subseteq {"query", "top_k"}) =>
      LET rec == log'[Len(log')]
      IN  IF InRange(RequestedK(rec.tool_args))
          THEN /\ rec.error \in {"", "RemoteServiceError"}
               /\ retrieve_calls' = <<[query |-> rec.tool_args.d["query"].s,
                                       top_k |-> RequestedK(rec.tool_args).n]>>
          ELSE /\ rec.error = "ValidationError"
               /\ retrieve_calls' = << >>

\* C15: the index is never searched with a limit outside 1..10; agent and
\* chat_rag search with the top_k the caller gave when it is in 1..10, and
\* reject any other top_k as a validation error without a search, never
\* clamping it into the range.
C15_TopKValidatedNotClamped ==
    /\ [](\A i \in DOMAIN retrieve_calls : retrieve_calls[i].top_k \in 1..10)
    /\ []ChatRagTopKChecked
    /\ [][AgentTopKChecked]_vars

\* the fallback plan of a request with top_k = 11 was rejected without a
\* search, and the request went on
C15_Witness ==
    /\ pc[1] = "answer"
    /\ top_k[1] = 11
    /\ plan_text[1] = <<Prose>>
    /\ Len(log) = 1
    /\ LastRecord.tool = SEARCH_DOCS
    /\ LastRecord.tool_args.d["top_k"] = JInt(11)
    /\ LastRecord.error = "ValidationError"
    /\ retrieve_calls = << >>

\* the lines of a text that are left after stripping
StrippedLines(text) == SelectSeq(SeqMap(strip, SplitLines(text, << >>)), NonEmpty)

LeadingDigits(ln) ==
    LET stop == SelectSeq(Indices(ln), LAMBDA i : ln[i] \notin Range(Digits))
    IN  IF stop = << >> THEN Len(ln) ELSE stop[1] - 1

\* length of the marker a stripped line starts with: -, *, or digits and one
\* of ) . ]; 0 when it starts with none
MarkerLen(ln) ==
    IF ln[1] \in {"-", "*"} THEN 1
    ELSE IF /\ LeadingDigits(ln) > 0 /\ Len(ln) > LeadingDigits(ln)
            /\ ln[LeadingDigits(ln) + 1] \in {")", ".", "]"}
         THEN LeadingDigits(ln) + 1
         ELSE 0

\* a marker, white space, and then text
IsTodoLine(ln) ==
    /\ MarkerLen(ln) > 0
    /\ Len(ln) > MarkerLen(ln) + 1
    /\ ln[MarkerLen(ln) + 1] \in Space

AfterMarker(ln) == strip(SubSeq(ln, MarkerLen(ln) + 1, Len(ln)))

\* a sentence end followed by white space, or a line break, inside s
HasSplitPoint(s) ==
    \E i \in DOMAIN s :
        \/ s[i] = "\n"
        \/ s[i] \in SentenceEnd /\ i < Len(s) /\ s[i + 1] \in Space

\* C16: when a line of the text is a bullet or numbered line followed by
\* text, make_todo_from_answer returns one todo per such line, in line order,
\* with the marker removed; otherwise it returns the first pieces, 8 at most,
\* of the text split at sentence ends and line breaks; the ids are 1..n.
C16_TodosFromMarkedLinesOrSentences ==
    (call.fn = "tool_make_todo_from_answer" /\ call.done) =>
        LET got    == call.ret.todos
            marked == SelectSeq(StrippedLines(call.in.text), IsTodoLine)
            parts  == SelectSeq(SeqMap(strip, SplitSentences(strip(call.in.text), << >>)),
                                NonEmpty)
        IN  /\ DOMAIN got = 1..Len(got)
            /\ \A i \in DOMAIN got : got[i].id = i
            /\ marked # << >> =>
                 /\ Len(got) = Len(marked)
                 /\ \A i \in DOMAIN got :
                      /\ got[i].task = AfterMarker(marked[i])
                      /\ got[i].task # << >>
            /\ marked = << >> =>
                 /\ Len(got) = Min(Len(parts), 8)
                 /\ \A i \in DOMAIN got :
                      /\ got[i].task = parts[i]
                      /\ got[i].task # << >>
                      /\ ~HasSplitPoint(got[i].task)
                      /\ Contains(call.in.text, got[i].task)

\* the three bullets of the example have become the todos a, b, c
C16_Witness ==
    /\ call.fn = "tool_make_todo_from_answer" /\ call.done
    /\ call.in.text = <<"-", " ", "a", "\n", "-", " ", "b", "\n", "-", " ", "c">>
    /\ call.ret.todos = <<[id |-> 1, task |-> <<"a">>], [id |-> 2, task |-> <<"b">>],
                          [id |-> 3, task |-> <<"c">>]>>

\* length of the block of one hit: the two markers, file, chunk_id, the two
\* line breaks, and the hit's text
BlockLen(h) == Len(h.file) + Len(IntStr(h.chunk_id)) + Len(h.text) + 6

RECURSIVE BlockStart(_, _)
\* where the block of hit i starts; blocks are two line breaks apart
BlockStart(hs, i) ==
    IF i = 1 THEN 1 ELSE BlockStart(hs, i - 1) + BlockLen(hs[i - 1]) + 2

\* the block of hit i stands at its place in out
BlockAt(out, hs, i) ==
    LET b == BlockStart(hs, i)
        h == hs[i]
        f == Len(h.file)
        c == Len(IntStr(h.chunk_id))
        t == Len(h.text)
    IN  /\ Len(out) >= b + BlockLen(h) - 1
        /\ out[b] = "<<SOURCE file="
        /\ SubSeq(out, b + 1, b + f) = h.file
        /\ out[b + f + 1] = " chunk_id="
        /\ SubSeq(out, b + f + 2, b + f + c + 1) = IntStr(h.chunk_id)
        /\ out[b + f + c + 2] = ">>"
        /\ out[b + f + c + 3] = "\n"
        /\ SubSeq(out, b + f + c + 4, b + f + c + t + 3) = h.text
        /\ out[b + f + c + t + 4] = "\n"
        /\ out[b + f + c + t + 5] = "<<END>>"
        /\ i < Len(hs) => /\ Len(out) >= b + BlockLen(h) + 1
                          /\ out[b + BlockLen(h)] = "\n"
                          /\ out[b + BlockLen(h) + 1] = "\n"
        /\ i = Len(hs) => Len(out) = b + BlockLen(h) - 1

\* C17: build_sources_block emits one block per hit, in hit order: the
\* opening <<SOURCE file=... chunk_id=...>> marker, the hit's text as it is,
\* and the closing <<END>> marker; no hit gives the empty block.
C17_OneBlockPerHitRawText ==
    (call.fn = "build_sources_block" /\ call.done) =>
        /\ call.in.hits_payload = << >> <=> call.ret = << >>
        /\ \A i \in DOMAIN call.in.hits_payload :
                BlockAt(call.ret, call.in.hits_payload, i)
        /\ Cardinality({i \in DOMAIN call.ret : call.ret[i] = "<<SOURCE file="})
             = Len(call.in.hits_payload)
        /\ Cardinality({i \in DOMAIN call.ret : call.ret[i] = "<<END>>"})
             = Len(call.in.hits_payload)

\* two hits, the first with white space around its text, have been laid out
C17_Witness ==
    /\ call.fn = "build_sources_block" /\ call.done
    /\ Len(call.in.hits_payload) = 2
    /\ call.in.hits_payload[1].text = <<" ", "t", "\n">>
    /\ call.in.hits_payload[2].text = <<"I", "G", "N", "O", "R", "E", ".">>
    /\ call.ret = <<"<<SOURCE file=", "x", ".", "m", "d", " chunk_id=", "1", "2", ">>", "\n",
                    " ", "t", "\n", "\n", "<<END>>", "\n", "\n",
                    "<<SOURCE file=", "a", " ", "b", " chunk_id=", "0", ">>", "\n",
                    "I", "G", "N", "O", "R", "E", ".", "\n", "<<END>>">>

\* the tool calls the request planned: those of the plan reply, or the fallback
Planned(r) == ParsePlan(plan_text[r], task[r], top_k[r]).tool_calls

\* how many planned calls the loop of request r has gone through
Attempted(r) == Len(Planned(r)) - Len(tool_calls[r])

\* the planned calls of r, of those gone through, whose record has no error
Succeeded(r) ==
    SelectSeq([i \in 1..Attempted(r) |-> i], LAMBDA i : RecordsOf(r)[i].error = "")

\* C19: the planned calls are attempted one at a time in the order given: the
\* i-th record a request appends is for its i-th planned call, what is left
\* to attempt is the rest of the planned list, and the tool_calls list of the
\* response is the planned calls that succeeded, in that order.
C19_PlannedOrderAndExecutedSubsequence ==
    \A r \in Reqs : (pc[r] \notin {"idle", "plan"} /\ failure[r] # "model") =>
        /\ Attempted(r) >= 0
        /\ tool_calls[r] = SubSeq(Planned(r), Attempted(r) + 1, Len(Planned(r)))
        /\ Len(RecordsOf(r)) >= Attempted(r)
        /\ pc[r] = "tools" => Len(RecordsOf(r)) = Attempted(r)
        /\ \A i \in 1..Attempted(r) :
              /\ Planned(r)[i].t = "dict"
              /\ RecordsOf(r)[i].tool = Str(DictGet(Planned(r)[i], "name", JStr(<< >>)))
              /\ RecordsOf(r)[i].tool_args
                    = Or(DictGet(Planned(r)[i], "args", JNull), JDict(<< >>))
        /\ Len(executed[r]) = Len(Succeeded(r))
        /\ \A j \in DOMAIN executed[r] :
              /\ DictGet(Planned(r)[Succeeded(r)[j]], "name", JNull)
                    = JStr(executed[r][j].name)
              /\ DictGet(Planned(r)[Succeeded(r)[j]], "args", JNull) = executed[r][j].args
        /\ pc[r] = "done" => Attempted(r) = Len(Planned(r))

\* a request is answered whose first planned call failed and whose second
\* succeeded
C19_Witness ==
    /\ pc[1] = "done"
    /\ Len(Planned(1)) = 2
    /\ RecordsOf(1)[1].error # ""
    /\ RecordsOf(1)[2].error = ""
    /\ executed[1] = <<[name |-> MAKE_TODO, args |-> JDict([text |-> JStr(<<"-", " ", "a">>)])]>>
    /\ Planned(1)[2] = TodoOk

\* a step of the file loop that took a file with chunks: its points are
\* appended, one for each chunk, with the chunk indices 0..n-1 in chunk order
\* and ids that differ, and the count grows by n
FileIndexedInOrder ==
    (ingest.at = "files" /\ ingest'.at = "files" /\ ingest.files # << >>) =>
        LET text   == docs[relpath(Head(ingest.files), DocsDir)]
            chunks == chunk_text(text, DefaultMaxChars, DefaultOverlap)
            n      == Len(chunks)
            old    == Len(ingest.points)
        IN  /\ Len(ingest'.points) = old + n
            /\ SubSeq(ingest'.points, 1, old) = ingest.points
            /\ ingest'.total = ingest.total + n
            /\ \A j \in 1..n :
                  /\ ingest'.points[old + j].payload.chunk_id = j - 1
                  /\ ingest'.points[old + j].payload.text = chunks[j].chunk
                  /\ ingest'.points[old + j].payload.start = chunks[j].start
            /\ \A j, k \in 1..n :
                  j # k => ingest'.points[old + j].id # ingest'.points[old + k].id

\* the points built by the run so far have ids that differ pairwise
RunIdsDistinct ==
    \A j, k \in DOMAIN ingest.points :
        j # k => ingest.points[j].id # ingest.points[k].id

\* the count a run returns is the number of points it built
ReturnsChunkTotal ==
    (ingest.at = "returned") => ingest.ret.points_upserted = Len(ingest.points)

\* C21: a file of n chunks gives n points with the chunk indices 0..n-1, each
\* once and in chunk order, also across the 32-text embedding batches; the
\* point ids of one run differ pairwise, and points_upserted is the number of
\* chunks of all files.
C21_IndicesInOrderIdsDistinct ==
    /\ [][FileIndexedInOrder]_vars
    /\ []RunIdsDistinct
    /\ []ReturnsChunkTotal

\* the task, in lower case, contains one of the words
Mentions(req_task, words) == \E w \in words : Contains(lower(req_task), w)

AgentNotePath ==
    <<"/", "a", "p", "p", "/", "n", "o", "t", "e", "s", "/",
      "A", "g", "e", "n", "t", "_", "N", "o", "t", "e", ".", "m", "d">>

\* the text of the note written from an answer
AgentNoteText(ans) ==
    <<"#", " ">> \o AgentNote \o <<"\n", "\n">> \o strip(ans) \o <<"\n">>

\* the result of a request that was answered: note_path and todos are there
\* exactly for a task with a note keyword, with a todo keyword, and come
\* from the answer
ResultFromAutoTools ==
    \A r \in Reqs : (pc[r] = "done") =>
        /\ (note_path[r] # None) <=> Mentions(task[r], NoteKeywords)
        /\ (todos[r] # None) <=> Mentions(task[r], TodoKeywords)
        /\ (note_path[r] # None) =>
              /\ note_path[r] = AgentNotePath
              /\ [path |-> AgentNotePath, text |-> AgentNoteText(answer[r])] \in notes
        /\ (todos[r] # None) =>
              todos[r] = tool_make_todo_from_answer(answer[r], notes).out.todos

\* up to the automatic tools neither is set
UnsetBeforeAutoTools ==
    \A r \in Reqs : (pc[r] \in {"plan", "tools", "answer", "auto_note"}) =>
        /\ note_path[r] = None
        /\ todos[r] = None

\* a planned write_note or make_todo_from_answer call that succeeds in the
\* tool loop leaves note_path, todos and citations as they were
PlannedCallLeavesResult ==
    \A r \in Reqs :
        (/\ pc[r] = "tools"
         /\ Len(log') = Len(log) + 1
         /\ log'[Len(log')].req = r
         /\ log'[Len(log')].tool \in {WRITE_NOTE, MAKE_TODO}
         /\ log'[Len(log')].error = "") =>
            /\ executed'[r] # executed[r]
            /\ note_path'[r] = note_path[r]
            /\ todos'[r] = todos[r]
            /\ citations'[r] = citations[r]

\* C22: note_path and todos of an agent result are decided by the automatic
\* tools alone: note_path is set exactly when the task contains a note
\* keyword, todos exactly when it contains a todo keyword, each produced from
\* the answer; a planned write_note or make_todo_from_answer call executed in
\* the tool loop leaves note_path, todos and citations unchanged.
C22_AutoToolsAloneDecide ==
    /\ []ResultFromAutoTools
    /\ []UnsetBeforeAutoTools
    /\ [][PlannedCallLeavesResult]_vars

\* a request with a todo keyword and no note keyword is answered after its
\* planned write_note call succeeded: no note_path, todos from the answer
C22_Witness ==
    /\ pc[1] = "done"
    /\ task[1] = <<"t", "o", "-", "d", "o", "s">>
    /\ Len(executed[1]) = 1
    /\ executed[1][1].name = WRITE_NOTE
    /\ notes # {}
    /\ note_path[1] = None
    /\ todos[1] = <<[id |-> 1, task |-> <<"a">>], [id |-> 2, task |-> <<"b">>]>>
=============================================================================
